---- MODULE Spec2Model ----
(***************************************************************************)
(* Tzelem backend: the flow translator (core/flow_translator.py) and the   *)
(* runs API (api/runs.py): run registry, background execution task and    *)
(* the server-sent event stream; the Sequential and Agentic engines        *)
(* (core/JSON_flow_agent_sequential.py, core/JSON_flow_agent.py), the      *)
(* voice API (api/voice.py) and the rate limiter (core/rate_limiter.py).   *)
(*                                                                         *)
(* Scheduling is the cooperative asyncio loop: every action below is one   *)
(* stretch of code between two suspension points (await / yield).          *)
(***************************************************************************)
EXTENDS Integers, Sequences, FiniteSets, TLC

(***************************************************************************)
(* Bounds of the model.                                                    *)
(***************************************************************************)
MaxNodes == 2        \* longest node list handed to the translator
MaxEdges == 2        \* longest edge list handed to the translator
MaxRuns == 1         \* run ids that POST /api/runs may create
MaxStreams == 1      \* event-stream connections
MaxRunNodes == 2     \* longest node list of a flow submitted to POST /api/runs
MaxSeqNodes == 3     \* longest node list of a sequential translation
MaxSeqEdges == 2     \* longest edge list of a sequential translation
MaxSeqSessions == 2  \* Sequential engine instances alive at a time
MaxAgenticSessions == 2  \* Agentic engine instances alive at a time
MaxVoiceRooms == 2       \* rooms the voice API may create
MaxVoiceRequests == 2    \* DELETE /api/voice/rooms/{room} calls
MaxWindows == 2          \* windows the limiter's clock passes through
MaxOverLimit == 2        \* requests a client sends beyond the limit in a window

(***************************************************************************)
(* Values.                                                                 *)
(***************************************************************************)
\* dict.get(key) of an absent key / a Python None
Missing == "<none>"

\* the n-th node id of the editor
IdOf(i) == "n" \o ToString(i)

\* an id that no node carries
GhostId == "ghost"

\* str.lower() on the strings the model uses
LowerTable ==
    [s \in {"MasterAgent", "masteragent", "ExecutionAgent", "MailAgent",
            "DataCollectionAgent", "RoutingAgent", "Widget",
            "Agentic", "AGENTIC", "agentic", "Sequential", "sequential",
            "Hierarchical"} |->
        CASE s = "MasterAgent" -> "masteragent"
          [] s = "masteragent" -> "masteragent"
          [] s = "ExecutionAgent" -> "executionagent"
          [] s = "MailAgent" -> "mailagent"
          [] s = "DataCollectionAgent" -> "datacollectionagent"
          [] s = "RoutingAgent" -> "routingagent"
          [] s = "Widget" -> "widget"
          [] s = "Agentic" -> "agentic"
          [] s = "AGENTIC" -> "agentic"
          [] s = "agentic" -> "agentic"
          [] s = "Sequential" -> "sequential"
          [] s = "sequential" -> "sequential"
          [] s = "Hierarchical" -> "hierarchical"]

Lower(s) == IF s \in DOMAIN LowerTable THEN LowerTable[s] ELSE s

\* node.get("type", "").lower()
NodeType(node) == IF node.type = Missing THEN "" ELSE Lower(node.type)

ExecutionTypes == {"executionagent", "mailagent", "datacollectionagent", "routingagent"}

\* result of a call: a value, or the exception that left it
Ok(v) == [ok |-> TRUE, value |-> v]
Raise(kind) == [ok |-> FALSE, error |-> kind]

\* SelectSeq with an operator argument that may mention bound variables
RECURSIVE FilterSeq(_, _)
FilterSeq(s, keep) ==
    IF s = <<>> THEN <<>>
    ELSE (IF Head(s) \in keep THEN <<Head(s)>> ELSE <<>>) \o FilterSeq(Tail(s), keep)

Range(s) == {s[i] : i \in 1..Len(s)}

(***************************************************************************)
(* FlowTranslator, agentic.                                                *)
(***************************************************************************)
\* The interpreter's recursion limit, as far as the recursion over edges is
\* concerned: a chain of calls longer than the edge list walks an edge twice,
\* so it is on a cycle and never ends below the limit.
RecursionLimit(edges) == Len(edges) + 1

Overflow == "<RecursionError>"

\* _find_connected_nodes: the set of targets, with Overflow in it when the
\* recursion exceeded the limit (the RecursionError unwinds every caller).
RECURSIVE FindConnectedFrom(_, _, _)
FindConnectedFrom(master_id, edges, depth) ==
    IF depth > RecursionLimit(edges) THEN {Overflow}
    ELSE UNION { IF edges[i].source = master_id /\ edges[i].target # Missing
                 THEN {edges[i].target}
                      \cup FindConnectedFrom(edges[i].target, edges, depth + 1)
                 ELSE {} : i \in 1..Len(edges) }

\* a walk that visits no node twice: the ids that a path of n or fewer edges
\* reaches from one of the sources
RECURSIVE GuardedWalk(_, _, _)
GuardedWalk(sources, edges, n) ==
    LET targets == {edges[i].target :
                      i \in {j \in 1..Len(edges) : edges[j].source \in sources
                                                    /\ edges[j].source # Missing}}
                   \ {Missing}
    IN IF n = 0 THEN {}
       ELSE targets \cup GuardedWalk(targets, edges, n - 1)

\* _find_connected_nodes with a guard against walking a node twice
_find_connected_nodes_guarded(master_id, edges) == GuardedWalk({master_id}, edges, Len(edges))

\* _find_connected_nodes without its recursive call: the direct targets only
_find_connected_nodes_direct(master_id, edges) ==
    {edges[i].target : i \in {j \in 1..Len(edges) : edges[j].source = master_id}} \ {Missing}

_find_connected_nodes(master_id, edges) == FindConnectedFrom(master_id, edges, 1)

\* the walk of _find_connected_nodes as a sequence: every target in the order
\* in which the loop over the edges and its recursive calls add it
RECURSIVE WalkFrom(_, _, _, _)
WalkFrom(master_id, edges, i, depth) ==
    IF depth > RecursionLimit(edges) \/ i > Len(edges) THEN <<>>
    ELSE (IF edges[i].source = master_id /\ edges[i].target # Missing
          THEN <<edges[i].target>> \o WalkFrom(edges[i].target, edges, 1, depth + 1)
          ELSE <<>>) \o WalkFrom(master_id, edges, i + 1, depth)

\* the first occurrences of a sequence, in order
RECURSIVE FirstOccurrences(_, _)
FirstOccurrences(s, seen) ==
    IF s = <<>> THEN <<>>
    ELSE IF Head(s) \in seen THEN FirstOccurrences(Tail(s), seen)
    ELSE <<Head(s)>> \o FirstOccurrences(Tail(s), seen \cup {Head(s)})

\* the order in which the walk from the master discovers the nodes
DiscoveryOrder(master_id, edges) == FirstOccurrences(WalkFrom(master_id, edges, 1, 1), {})

\* _convert_node_to_sub_agent, with the data bag reduced to the system prompt
_convert_node_to_sub_agent(node) ==
    LET t == NodeType(node)
        prompt(default) == IF node.prompt = Missing THEN default ELSE node.prompt
    IN CASE t = "executionagent" ->
              [type |-> "browser-agent",
               prompt |-> prompt("Execute the given task using browser automation")]
         [] t = "mailagent" ->
              [type |-> "mail-agent",
               prompt |-> prompt("Send an email based on the conversation context"),
               subject |-> "Message from Tzelem", fromName |-> "Tzelem",
               recipient |-> "user@example.com"]
         [] t = "datacollectionagent" ->
              [type |-> "browser-agent",
               prompt |-> prompt("Collect the required data points from the user"),
               dataPoints |-> <<>>, collectData |-> TRUE]
         [] t = "routingagent" ->
              [type |-> "browser-agent",
               prompt |-> prompt("Route the user request to the appropriate handler"),
               routes |-> <<>>, isRouter |-> TRUE]
         [] OTHER -> Missing

\* the loop of lines 44-49: the last master node wins
MasterIndex(nodes) ==
    LET ms == {i \in 1..Len(nodes) : NodeType(nodes[i]) = "masteragent"}
    IN IF ms = {} THEN 0 ELSE CHOOSE i \in ms : \A j \in ms : j <= i

RECURSIVE SubAgentsOf(_, _)
SubAgentsOf(execution_nodes, connected) ==
    IF execution_nodes = <<>> THEN <<>>
    ELSE (IF Head(execution_nodes).id \in connected
          THEN <<_convert_node_to_sub_agent(Head(execution_nodes))>>
          ELSE <<>>) \o SubAgentsOf(Tail(execution_nodes), connected)

\* lines 54-75: the configuration built once the master node is known
\* (masterModel, a copy of the master's data bag, is left out)
AgenticConfig(nodes, edges, m) ==
    LET execution_nodes == FilterSeq(nodes, {n \in Range(nodes) : NodeType(n) \in ExecutionTypes})
    IN IF nodes[m].id = Missing THEN Raise("KeyError")
       ELSE LET connected == _find_connected_nodes(nodes[m].id, edges)
            IN IF Overflow \in connected THEN Raise("RecursionError")
               ELSE IF \E n \in Range(execution_nodes) : n.id = Missing THEN Raise("KeyError")
               ELSE Ok([paradigm |-> "Agentic",
                        subAgents |-> SubAgentsOf(execution_nodes, connected),
                        masterPrompt |->
                            IF nodes[m].prompt = Missing
                            THEN "You are a master agent coordinating sub-agents."
                            ELSE nodes[m].prompt])

\* translate_to_agentic answering a flow without master with an empty configuration
translate_to_agentic_lenient(nodes, edges) ==
    LET m == MasterIndex(nodes)
    IN IF m = 0
       THEN Ok([paradigm |-> "Agentic", subAgents |-> <<>>,
                masterPrompt |-> "You are a master agent coordinating sub-agents."])
       ELSE AgenticConfig(nodes, edges, m)

translate_to_agentic(nodes, edges) ==
    LET m == MasterIndex(nodes)
    IN IF m = 0 THEN Raise("FlowTranslationError")
       ELSE AgenticConfig(nodes, edges, m)

(***************************************************************************)
(* FlowTranslator, sequential.                                             *)
(***************************************************************************)
NodeIdsOf(nodes) == {nodes[i].id : i \in 1..Len(nodes)}

\* _build_tree_from_edges: parent id -> list of child ids
RECURSIVE BuildTree(_, _)
BuildTree(tree, edges) ==
    IF edges = <<>> THEN Ok(tree)
    ELSE LET e == Head(edges)
         IN IF e.source # Missing /\ e.target # Missing
            THEN IF e.source \in DOMAIN tree
                 THEN BuildTree([tree EXCEPT ![e.source] = Append(@, e.target)], Tail(edges))
                 ELSE Raise("KeyError")
            ELSE BuildTree(tree, Tail(edges))

_build_tree_from_edges(nodes, edges) ==
    IF Missing \in NodeIdsOf(nodes) THEN Raise("KeyError")
    ELSE BuildTree([id \in NodeIdsOf(nodes) |-> <<>>], edges)

\* _find_root_node: the first node id that is no edge's target, or Missing
_find_root_node(edges, all_node_ids) ==
    LET targets == {edges[i].target : i \in 1..Len(edges)} \ {Missing}
        roots == {i \in 1..Len(all_node_ids) : all_node_ids[i] \notin targets}
    IN IF roots = {} THEN Missing
       ELSE all_node_ids[CHOOSE i \in roots : \A j \in roots : i <= j]

\* the agent type and the type-specific fields of lines 250-288
SequentialAgentBase(node, identifier) ==
    LET t == NodeType(node)
        prompt(default) == IF node.prompt = Missing THEN default ELSE node.prompt
    IN CASE t = "masteragent" ->
              [identifier |-> identifier, type |-> "router",
               prompt |-> prompt("Welcome! I'll help route your request appropriately.")]
         [] t = "routingagent" ->
              [identifier |-> identifier, type |-> "router",
               prompt |-> prompt("Process the user request")]
         [] t = "datacollectionagent" ->
              [identifier |-> identifier, type |-> "dataCollector",
               prompt |-> prompt("Process the user request")]
         [] t = "mailagent" ->
              [identifier |-> identifier, type |-> "emailAgent",
               prompt |-> prompt("Process the user request"),
               emailConfig |-> [subject |-> "Message from Tzelem", fromName |-> "Tzelem"]]
         [] OTHER ->
              [identifier |-> identifier, type |-> "router",
               prompt |-> prompt("Process the user request")]

\* line 294 enumerating the children from 0
ChildIdentifier_from_zero(identifier, i) == identifier \o "_" \o ToString(i - 1)

\* line 296 numbering every child with its depth instead of its position
ChildIdentifier_by_depth(identifier, i) == identifier \o "_1"

\* line 296: child_identifier = f"{identifier}_{i}"
ChildIdentifier(identifier, i) == identifier \o "_" \o ToString(i)

\* _convert_tree_to_sequential_agent; ConvertChildren is its loop of lines 294-299
\* (depth and limit stand for the interpreter's recursion limit, as in
\* FindConnectedFrom)
RECURSIVE ConvertTree(_, _, _, _, _, _)
RECURSIVE ConvertChildren(_, _, _, _, _, _, _)
ConvertTree(node_id, tree, nodes, identifier, depth, limit) ==
    IF depth > limit THEN Raise("RecursionError")
    ELSE LET found == {i \in 1..Len(nodes) : nodes[i].id = node_id}
         IN IF found = {} THEN Raise("FlowTranslationError")
            ELSE LET node == nodes[CHOOSE i \in found : \A j \in found : i <= j]
                     agent == SequentialAgentBase(node, identifier)
                     children_ids == IF node_id \in DOMAIN tree THEN tree[node_id] ELSE <<>>
                 IN IF children_ids = <<>> THEN Ok(agent)
                    ELSE LET children == ConvertChildren(children_ids, 1, tree, nodes,
                                                         identifier, depth, limit)
                         IN IF children.ok
                            THEN Ok(agent @@ [children |-> children.value])
                            ELSE children

ConvertChildren(children_ids, i, tree, nodes, identifier, depth, limit) ==
    IF i > Len(children_ids) THEN Ok(<<>>)
    ELSE LET child == ConvertTree(children_ids[i], tree, nodes,
                                  ChildIdentifier(identifier, i), depth + 1, limit)
         IN IF ~child.ok THEN child
            ELSE LET rest == ConvertChildren(children_ids, i + 1, tree, nodes,
                                             identifier, depth, limit)
                 IN IF rest.ok THEN Ok(<<child.value>> \o rest.value) ELSE rest

_convert_tree_to_sequential_agent(node_id, tree, nodes, identifier, limit) ==
    ConvertTree(node_id, tree, nodes, identifier, 1, limit)

translate_to_sequential(nodes, edges) ==
    LET tree == _build_tree_from_edges(nodes, edges)
    IN IF ~tree.ok THEN tree
       ELSE LET found == _find_root_node(edges, [i \in 1..Len(nodes) |-> nodes[i].id])
                root_node_id == IF found # Missing THEN found
                                ELSE IF nodes # <<>> THEN nodes[1].id ELSE Missing
            IN IF root_node_id = Missing THEN Raise("FlowTranslationError")
               ELSE LET starting_agent ==
                            _convert_tree_to_sequential_agent(root_node_id, tree.value,
                                                              nodes, "1",
                                                              RecursionLimit(edges))
                    IN IF starting_agent.ok
                       THEN Ok([paradigm |-> "sequential",
                                startingAgent |-> starting_agent.value])
                       ELSE starting_agent

(***************************************************************************)
(* translate_flow_to_backend: every exception leaves as FlowTranslationError *)
(***************************************************************************)
\* lines 324-330: the body of the try block; a paradigm that is no string has
\* no lower()
TranslateBody(paradigm, nodes, edges) ==
    IF paradigm = Missing THEN Raise("AttributeError")
    ELSE IF Lower(paradigm) = "agentic" THEN translate_to_agentic(nodes, edges)
    ELSE IF Lower(paradigm) = "sequential" THEN translate_to_sequential(nodes, edges)
    ELSE Raise("FlowTranslationError")

\* translate_flow_to_backend catching FlowTranslationError only
translate_flow_to_backend_narrow(paradigm, nodes, edges) ==
    TranslateBody(paradigm, nodes, edges)

translate_flow_to_backend(paradigm, nodes, edges) ==
    LET r == TranslateBody(paradigm, nodes, edges)
    IN IF r.ok THEN r ELSE Raise("FlowTranslationError")

\* start_run, lines 96-102 and 147-151: the status that answers a translation
\* that raised
TranslationFailureStatus(error) ==
    IF error = "FlowTranslationError" THEN 400 ELSE 500
TranslationFailureDetail(error) ==
    IF error = "FlowTranslationError" THEN "Invalid flow structure" ELSE "Failed to start run"

(***************************************************************************)
(* State.                                                                  *)
(***************************************************************************)
VARIABLES
    active_runs,    \* runs.py active_runs: run id -> run record
    run_events,     \* runs.py run_events: run id -> list of events
    tasks,          \* the execute_run_agent task of each run: where it is suspended
    handlers,       \* start_run calls suspended in create_room: run id -> request
    http,           \* the last response of POST /api/runs
    streams,        \* generate_sse_events generators: where each is suspended
    tr_call,        \* a call of translate_flow_to_backend and its outcome
    flow_data,      \* JSON_flow_agent_sequential.py flow_data: the shared session state
    seq_sessions,   \* Sequential engine instances: the node each flow manager is at
    seq_result,     \* what the last Sequential function handler returned
    json_flow_data, \* JSON_flow_agent.py json_flow_data: the shared session state
    sub_agent_lists,    \* the list objects that sub_agents may refer to
    agentic_sessions,   \* Agentic engine instances: configuration, node, keyed state
    agentic_result, \* what the last Agentic function handler returned
    active_agents,  \* voice.py active_agents: room -> productivity agent entry
    active_json_agents,         \* voice.py active_json_agents: room -> entry
    active_sequential_agents,   \* voice.py active_sequential_agents: room -> entry
    voice_tasks,    \* the background task of each room and its pipeline task
    productivity_task,  \* productivity_flow_agent.task: the room whose pipeline it is
    voice_requests, \* cleanup_room calls: where each is suspended, its response
    voice_http,     \* the last response of the other voice endpoints
    limiter_storage,    \* the limiter's window counters, by client
    limiter_clock,  \* the window the wall clock is in
    limiter_tally,  \* what each client counted in the window: sent, rate limited
    limiter_http,   \* the last response of the limited endpoint
    mail_call,      \* a call of send_mail: its inputs, the provider's behaviour, the outcome
    flows_call      \* a call of get_flow or list_flows: its inputs and the outcome

vars == <<active_runs, run_events, tasks, handlers, http, streams, tr_call,
          flow_data, seq_sessions, seq_result,
          json_flow_data, sub_agent_lists, agentic_sessions, agentic_result,
          active_agents, active_json_agents, active_sequential_agents,
          voice_tasks, productivity_task, voice_requests, voice_http,
          limiter_storage, limiter_clock, limiter_tally, limiter_http,
          mail_call, flows_call>>
run_vars == <<active_runs, run_events, tasks, handlers, http, streams>>
seq_vars == <<flow_data, seq_sessions, seq_result>>
\* the state outside the runs API and the translator
agentic_vars == <<json_flow_data, sub_agent_lists, agentic_sessions, agentic_result>>
registry_vars == <<active_agents, active_json_agents, active_sequential_agents>>
voice_vars == <<registry_vars, voice_tasks, productivity_task, voice_requests, voice_http>>
limiter_vars == <<limiter_storage, limiter_clock, limiter_tally, limiter_http>>
call_vars == <<mail_call, flows_call>>
edge_vars == <<voice_vars, limiter_vars, call_vars>>
service_vars == <<seq_vars, agentic_vars, edge_vars>>

RunIds == 1..MaxRuns
StreamIds == 1..MaxStreams

(***************************************************************************)
(* Progress values are the rationals num/den, kept as <<num, den>>;        *)
(* <<>> is a run record without the progress key.                          *)
(***************************************************************************)
One == <<1, 1>>
RatEq(p, q) == p[1] * q[2] = q[1] * p[2]
RatLess(p, q) == p[1] * q[2] < q[1] * p[2]
RatLeq(p, q) == p[1] * q[2] <= q[1] * p[2]

\* (i + 0.5) / total_nodes, line 297
ProgressStarted_late(i, total_nodes) == <<2 * i + 2, 2 * total_nodes>>
ProgressStarted(i, total_nodes) == <<2 * i + 1, 2 * total_nodes>>

\* (i + 1) / total_nodes, line 308
ProgressCompleted(i, total_nodes) == <<i + 1, total_nodes>>

(***************************************************************************)
(* add_run_event: the event goes to run_events and to the run's own list.  *)
(* A world w is the pair of registries [runs, events].  Timestamps are     *)
(* left out of the events.                                                 *)
(***************************************************************************)
\* add_run_event that leaves the run's own list alone
add_run_event_registry_only(w, run_id, event_type, data) ==
    LET event == [type |-> event_type, runId |-> run_id] @@ data
        old == IF run_id \in DOMAIN w.events THEN w.events[run_id] ELSE <<>>
    IN [runs |-> w.runs, events |-> (run_id :> Append(old, event)) @@ w.events]

add_run_event_front(w, run_id, event_type, data) ==
    LET event == [type |-> event_type, runId |-> run_id] @@ data
        old == IF run_id \in DOMAIN w.events THEN w.events[run_id] ELSE <<>>
    IN [runs |-> IF run_id \in DOMAIN w.runs
                 THEN [w.runs EXCEPT ![run_id].events = <<event>> \o @]
                 ELSE w.runs,
        events |-> (run_id :> (<<event>> \o old)) @@ w.events]

add_run_event(w, run_id, event_type, data) ==
    LET event == [type |-> event_type, runId |-> run_id] @@ data
        old == IF run_id \in DOMAIN w.events THEN w.events[run_id] ELSE <<>>
    IN [runs |-> IF run_id \in DOMAIN w.runs
                 THEN [w.runs EXCEPT ![run_id].events = Append(@, event)]
                 ELSE w.runs,
        events |-> (run_id :> Append(old, event)) @@ w.events]

TerminalTypes == {"run_completed", "run_failed"}
IsTerminal(event) == event.type \in TerminalTypes

(***************************************************************************)
(* execute_run_agent and simulate_headless_execution, as steps on a world. *)
(***************************************************************************)
\* lines 256-264: normal completion
MarkCompleted_no_status(w, run_id) ==
    add_run_event([w EXCEPT !.runs[run_id].completedAt = "now",
                              !.runs[run_id].progress = One],
                  run_id, "run_completed", [status |-> "completed"])

MarkCompleted(w, run_id) ==
    add_run_event([w EXCEPT !.runs[run_id].status = "completed",
                              !.runs[run_id].completedAt = "now",
                              !.runs[run_id].progress = One],
                  run_id, "run_completed", [status |-> "completed"])

\* lines 268-276: the except branch
MarkFailed_silent(w, run_id, error) ==
    IF run_id \in DOMAIN w.runs
    THEN [w EXCEPT !.runs[run_id].status = "failed",
                   !.runs[run_id].completedAt = "now"]
    ELSE w

MarkFailed(w, run_id, error) ==
    IF run_id \in DOMAIN w.runs
    THEN add_run_event([w EXCEPT !.runs[run_id].status = "failed",
                                   !.runs[run_id].completedAt = "now"],
                       run_id, "run_failed", [error |-> error])
    ELSE w

\* node.get("id", f"node_{i}") and node.get("type", "unknown")
NodeIdOr(node, i) == IF node.id = Missing THEN "node_" \o ToString(i) ELSE node.id
NodeTypeOr(node) == IF node.type = Missing THEN "unknown" ELSE node.type

\* lines 293-303: the first half of one iteration, up to the sleep
NodeStarted(w, run_id, i) ==
    LET nodes == w.runs[run_id].nodes
        node == nodes[i + 1]
        p == ProgressStarted(i, Len(nodes))
    IN add_run_event([w EXCEPT !.runs[run_id].currentNode = NodeIdOr(node, i),
                                 !.runs[run_id].progress = p],
                     run_id, "node_started",
                     [nodeId |-> NodeIdOr(node, i), nodeType |-> NodeTypeOr(node),
                      progress |-> p])

\* lines 308-314: the second half, after the sleep
NodeCompleted(w, run_id, i) ==
    LET nodes == w.runs[run_id].nodes
        node == nodes[i + 1]
        p == ProgressCompleted(i, Len(nodes))
    IN add_run_event([w EXCEPT !.runs[run_id].progress = p],
                     run_id, "node_completed",
                     [nodeId |-> NodeIdOr(node, i), nodeType |-> NodeTypeOr(node),
                      progress |-> p])

World == [runs |-> active_runs, events |-> run_events]

SetWorld(w) ==
    /\ active_runs' = w.runs
    /\ run_events' = w.events

\* the number of agents of a sequential tree (len(flow_data.flow_tree))
RECURSIVE CountAgents(_)
RECURSIVE CountAgentList(_)
CountAgents(agent) ==
    1 + (IF "children" \in DOMAIN agent THEN CountAgentList(agent.children) ELSE 0)
CountAgentList(agents) ==
    IF agents = <<>> THEN 0 ELSE CountAgents(Head(agents)) + CountAgentList(Tail(agents))

\* lines 211: the voice branch is taken
TakesVoiceBranch(run) == run.voiceEnabled /\ run.room # Missing /\ run.token # Missing

\* execute_run_agent from its start to its first suspension: lines 195-254.
\* Headless, that is the sleep of the first node, or the end of the task when
\* there is no node.  With voice, the engine is built and the pipeline
\* created without suspension (raises: whether one of them raised), and the
\* task suspends in run_flow.
ExecuteStart(run_id, raises) ==
    /\ run_id \in DOMAIN tasks
    /\ tasks[run_id].pc = "scheduled"
    /\ LET w1 == add_run_event([World EXCEPT !.runs[run_id].status = "running"],
                               run_id, "run_started", <<>>)
           run == active_runs[run_id]
           total_nodes == Len(run.nodes)
       IN IF TakesVoiceBranch(run)
          THEN IF Lower(run.paradigm) \notin {"agentic", "sequential"}
               THEN /\ ~raises
                    /\ SetWorld(MarkFailed(w1, run_id, "Unsupported paradigm for voice execution"))
                    /\ tasks' = [tasks EXCEPT ![run_id] = [pc |-> "done", i |-> 0]]
               ELSE IF raises
               THEN /\ SetWorld(MarkFailed(w1, run_id, "engine error"))
                    /\ tasks' = [tasks EXCEPT ![run_id] = [pc |-> "done", i |-> 0]]
               ELSE /\ SetWorld(add_run_event(
                           [w1 EXCEPT !.runs[run_id].agent = "engine"],
                           run_id, "agent_initialized",
                           IF Lower(run.paradigm) = "agentic"
                           THEN [paradigm |-> "Agentic",
                                 subAgentsCount |-> Len(run.agentConfig.subAgents)]
                           ELSE [paradigm |-> "sequential",
                                 agentsCount |-> CountAgents(run.agentConfig.startingAgent)]))
                    /\ tasks' = [tasks EXCEPT ![run_id] = [pc |-> "run_flow", i |-> 0]]
          ELSE /\ ~raises
               /\ IF total_nodes = 0
                  THEN /\ SetWorld(MarkCompleted(
                              add_run_event(w1, run_id, "no_nodes",
                                            [message |-> "No nodes to execute"]),
                              run_id))
                       /\ tasks' = [tasks EXCEPT ![run_id] = [pc |-> "done", i |-> 0]]
                  ELSE /\ SetWorld(NodeStarted(w1, run_id, 0))
                       /\ tasks' = [tasks EXCEPT ![run_id] = [pc |-> "sleep", i |-> 0]]
    /\ UNCHANGED <<handlers, http, streams, tr_call, service_vars>>

\* the task wakes from asyncio.sleep(2) of node i: lines 308-314, then the
\* next iteration up to its sleep, or lines 256-264 after the last node
HeadlessWake(run_id) ==
    /\ run_id \in DOMAIN tasks
    /\ tasks[run_id].pc = "sleep"
    /\ LET i == tasks[run_id].i
           w1 == NodeCompleted(World, run_id, i)
       IN IF i + 1 < Len(active_runs[run_id].nodes)
          THEN /\ SetWorld(NodeStarted(w1, run_id, i + 1))
               /\ tasks' = [tasks EXCEPT ![run_id] = [pc |-> "sleep", i |-> i + 1]]
          ELSE /\ SetWorld(MarkCompleted(w1, run_id))
               /\ tasks' = [tasks EXCEPT ![run_id] = [pc |-> "done", i |-> i]]
    /\ UNCHANGED <<handlers, http, streams, tr_call, service_vars>>

\* agent.run_flow() returns (lines 229/247, then 256-264) or raises (268-276)
RunFlowEnds(run_id, raises) ==
    /\ run_id \in DOMAIN tasks
    /\ tasks[run_id].pc = "run_flow"
    /\ SetWorld(IF raises THEN MarkFailed(World, run_id, "pipeline error")
                ELSE MarkCompleted(World, run_id))
    /\ tasks' = [tasks EXCEPT ![run_id] = [pc |-> "done", i |-> 0]]
    /\ UNCHANGED <<handlers, http, streams, tr_call, service_vars>>

(***************************************************************************)
(* POST /api/runs.                                                         *)
(***************************************************************************)
\* The flows submitted to the runs API.  The node lists are the prefixes of
\* master, mail agent, mail agent, ... and the single mail agent; node i has
\* the id IdOf(i) and the edges chain the nodes in order.  Voice is asked for
\* the longest list only.
RunParadigms == {"Agentic", "Sequential", "Hierarchical"}
RunNodes(types) ==
    [i \in 1..Len(types) |-> [id |-> IdOf(i), type |-> types[i], prompt |-> Missing]]
RunNodeLists ==
    { RunNodes([i \in 1..n |-> IF i = 1 THEN "MasterAgent" ELSE "MailAgent"]) :
        n \in 0..MaxRunNodes }
    \cup { RunNodes(<<"MailAgent">>) }
ChainEdges(nodes) ==
    [i \in 1..(IF Len(nodes) = 0 THEN 0 ELSE Len(nodes) - 1) |->
        [source |-> nodes[i].id, target |-> nodes[i + 1].id]]
RunFlows ==
    { f \in { [paradigm |-> p, nodes |-> ns, edges |-> ChainEdges(ns), voice |-> v] :
                p \in RunParadigms, ns \in RunNodeLists, v \in BOOLEAN } :
        f.voice => Len(f.nodes) \in {0, MaxRunNodes} }
\* a request without flow JSON
NoFlow == [absent |-> TRUE]
RunRequests ==
    { [flowId |-> "flow-1", flow |-> NoFlow], [flowId |-> Missing, flow |-> NoFlow] }
    \cup { [flowId |-> Missing, flow |-> fl] : fl \in RunFlows }

\* what the response records of its request
Summary(request) ==
    IF request.flow = NoFlow
    THEN [hasFlow |-> FALSE, nodeCount |-> 0, voice |-> FALSE]
    ELSE [hasFlow |-> TRUE, nodeCount |-> Len(request.flow.nodes),
          voice |-> request.flow.voice]

Response(status, detail, request) ==
    [status |-> status, detail |-> detail, request |-> Summary(request)]

NoResponse == [status |-> 0, detail |-> "", request |-> [hasFlow |-> FALSE, nodeCount |-> 0, voice |-> FALSE]]

\* uuid.uuid4(): an id that no run and no suspended call holds
FreshIds == RunIds \ (DOMAIN active_runs \cup DOMAIN handlers)

\* lines 116-145: the run is stored, its task scheduled, 200 returned
StoreRun(run_id, request, room_url, token) ==
    LET flow == request.flow
        run_info == [id |-> run_id,
                     status |-> "starting",
                     flowId |-> request.flowId,
                     nodes |-> flow.nodes,
                     agentConfig |-> translate_flow_to_backend(
                                         flow.paradigm, flow.nodes,
                                         flow.edges).value,
                     paradigm |-> flow.paradigm,
                     voiceEnabled |-> flow.voice,
                     room |-> room_url,
                     token |-> token,
                     startedAt |-> "now",
                     completedAt |-> Missing,
                     currentNode |-> Missing,
                     progress |-> <<>>,
                     agent |-> Missing,
                     events |-> <<>>]
    IN /\ active_runs' = (run_id :> run_info) @@ active_runs
       /\ run_events' = (run_id :> <<>>) @@ run_events
       /\ tasks' = (run_id :> [pc |-> "scheduled", i |-> 0]) @@ tasks
       /\ http' = Response(200, "", request)

\* a failed room creation that stores the run all the same
RoomFailure_stores(run_id, request) ==
    /\ active_runs' = (run_id :> [id |-> run_id, status |-> "starting",
                                  flowId |-> request.flowId,
                                  nodes |-> request.flow.nodes,
                                  agentConfig |-> Missing,
                                  paradigm |-> request.flow.paradigm,
                                  voiceEnabled |-> TRUE, room |-> Missing,
                                  token |-> Missing, startedAt |-> "now",
                                  completedAt |-> Missing, currentNode |-> Missing,
                                  progress |-> <<>>, agent |-> Missing,
                                  events |-> <<>>]) @@ active_runs
    /\ UNCHANGED <<run_events, tasks>>
    /\ http' = Response(500, "Failed to create voice room", request)

\* lines 112-114: create_room raised
RoomFailure(run_id, request) ==
    /\ UNCHANGED <<active_runs, run_events, tasks>>
    /\ http' = Response(500, "Failed to create voice room", request)

\* start_run from its start to its return, or to the await of create_room
StartRun(request) ==
    /\ IF request.flowId = Missing /\ request.flow = NoFlow
       THEN /\ http' = Response(400, "Either flowId or flow JSON must be provided", request)
            /\ UNCHANGED <<active_runs, run_events, tasks, handlers>>
       ELSE IF request.flow = NoFlow
       THEN /\ http' = Response(400, "Flow lookup by ID not yet implemented", request)
            /\ UNCHANGED <<active_runs, run_events, tasks, handlers>>
       ELSE IF ~translate_flow_to_backend(request.flow.paradigm, request.flow.nodes,
                                          request.flow.edges).ok
       THEN LET error == translate_flow_to_backend(request.flow.paradigm,
                                                   request.flow.nodes,
                                                   request.flow.edges).error
            IN /\ http' = Response(TranslationFailureStatus(error),
                                   TranslationFailureDetail(error), request)
               /\ UNCHANGED <<active_runs, run_events, tasks, handlers>>
       ELSE \E run_id \in FreshIds :
              IF request.flow.voice
              THEN /\ handlers' = (run_id :> request) @@ handlers
                   /\ UNCHANGED <<active_runs, run_events, tasks, http>>
              ELSE /\ StoreRun(run_id, request, Missing, Missing)
                   /\ UNCHANGED handlers
    /\ UNCHANGED <<streams, tr_call, service_vars>>

\* create_room returns or raises, and start_run runs to its end
RoomCreated(run_id, created) ==
    /\ run_id \in DOMAIN handlers
    /\ IF created
       THEN StoreRun(run_id, handlers[run_id], "https://daily.co/room", "token")
       ELSE RoomFailure(run_id, handlers[run_id])
    /\ handlers' = [r \in DOMAIN handlers \ {run_id} |-> handlers[r]]
    /\ UNCHANGED <<streams, tr_call, service_vars>>

(***************************************************************************)
(* GET /api/runs/{run_id}/events: the generator generate_sse_events.       *)
(* A stream record holds the generator's locals: sent_count, the index it  *)
(* of the running for loop, the bound hi of the polling loop's range, and  *)
(* the frames yielded so far.  opened_late records whether the run had     *)
(* its terminal event when the stream was opened.                          *)
(***************************************************************************)
IdleStream ==
    [pc |-> "idle", run_id |-> 0, sent_count |-> 0, it |-> 0, hi |-> 0,
     frames |-> <<>>, opened_late |-> FALSE]

ErrorFrame == [type |-> "error", message |-> "Run not found"]

\* lines 368-372 and 379: the polling loop's for statement takes its next
\* index and yields that event, or is exhausted and the generator sleeps
PollNext(st, events) ==
    IF st.it < st.hi
    THEN [st EXCEPT !.pc = "poll_yield", !.frames = Append(@, events[st.it + 1])]
    ELSE [st EXCEPT !.pc = "sleep"]

\* lines 364-368: one turn of while True begins
PollBegin(st, events) ==
    PollNext([st EXCEPT !.it = st.sent_count, !.hi = Len(events)], events)

\* lines 358-360: the replay's for statement asks the list iterator for its
\* next element (the list is the live one of run_events) and yields it, or is
\* exhausted and the polling loop begins
ReplayNext(st, events) ==
    IF st.it < Len(events)
    THEN [st EXCEPT !.pc = "replay_yield", !.frames = Append(@, events[st.it + 1]),
                    !.it = @ + 1]
    ELSE PollBegin(st, events)

\* line 361 without its effect
ResumeReplay_uncounted(st, events) == ReplayNext(st, events)

\* line 361, after the replay's yield, and the next iteration
ResumeReplay(st, events) ==
    ReplayNext([st EXCEPT !.sent_count = @ + 1], events)

\* lines 372-376, after the polling loop's yield, and the next iteration
ResumePoll(st, events) ==
    LET event == events[st.it + 1]
        counted == [st EXCEPT !.sent_count = @ + 1]
    IN IF IsTerminal(event) THEN [counted EXCEPT !.pc = "closed"]
       ELSE PollNext([counted EXCEPT !.it = @ + 1], events)

\* the generator is started: lines 346-360
StreamOpen(s, run_id) ==
    /\ streams[s].pc = "idle"
    /\ IF run_id \notin DOMAIN active_runs
       THEN streams' = [streams EXCEPT ![s] =
                [IdleStream EXCEPT !.pc = "error_yield", !.run_id = run_id,
                                   !.frames = <<ErrorFrame>>]]
       ELSE LET events == run_events[run_id]
            IN streams' = [streams EXCEPT ![s] =
                   ReplayNext([IdleStream EXCEPT
                                  !.run_id = run_id,
                                  !.opened_late = \E k \in 1..Len(events) :
                                                      IsTerminal(events[k])],
                              events)]
    /\ UNCHANGED <<active_runs, run_events, tasks, handlers, http, tr_call, service_vars>>

\* the consumer asks for the next frame: the generator resumes after its yield
StreamResume(s) ==
    /\ streams[s].pc \in {"replay_yield", "poll_yield", "error_yield"}
    /\ LET st == streams[s]
       IN streams' = [streams EXCEPT ![s] =
              CASE st.pc = "error_yield" -> [st EXCEPT !.pc = "closed"]
                [] st.pc = "replay_yield" -> ResumeReplay(st, run_events[st.run_id])
                [] st.pc = "poll_yield" -> ResumePoll(st, run_events[st.run_id])]
    /\ UNCHANGED <<active_runs, run_events, tasks, handlers, http, tr_call, service_vars>>

\* asyncio.sleep(1) is over: lines 381-383, then the next turn of while True
StreamWake(s) ==
    /\ streams[s].pc = "sleep"
    /\ LET st == streams[s]
       IN streams' = [streams EXCEPT ![s] =
              IF st.run_id \notin DOMAIN active_runs
              THEN [st EXCEPT !.pc = "closed"]
              ELSE PollBegin(st, run_events[st.run_id])]
    /\ UNCHANGED <<active_runs, run_events, tasks, handlers, http, tr_call, service_vars>>

(***************************************************************************)
(* The Sequential engine (core/JSON_flow_agent_sequential.py).  Its        *)
(* session state is the module-level flow_data, shared by every engine     *)
(* instance; each instance has its own flow manager, which is at one node  *)
(* and offers that node's functions.  The handlers contain no await, so    *)
(* each call is one step.                                                  *)
(***************************************************************************)
SeqSessionIds == 1..MaxSeqSessions

\* dict[k] = v
Put(f, k, v) == [x \in DOMAIN f \cup {k} |-> IF x = k THEN v ELSE f[x]]

\* DEFAULT_JSON_CONFIG, reduced to a router over a data collector (two data
\* points, followed by an email agent) and an email agent
SEQ_DEFAULT_JSON_CONFIG ==
    [paradigm |-> "sequential",
     startingAgent |->
        [type |-> "router", identifier |-> "1", prompt |-> "route",
         children |->
            << [type |-> "dataCollector", identifier |-> "1_1", prompt |-> "collect",
                dataPoints |-> << [name |-> "a", value |-> ""],
                                  [name |-> "b", value |-> ""] >>,
                children |-> << [type |-> "emailAgent", identifier |-> "1_1_1",
                                 prompt |-> "welcome"] >>],
               [type |-> "emailAgent", identifier |-> "1_2", prompt |-> "inform"] >>]]

\* configurations handed to the constructor: a data collector without
\* children, a router over a node of a type the engine does not know, and
\* three that the validation refuses
SeqLeafCollectorConfig ==
    [paradigm |-> "sequential",
     startingAgent |-> [type |-> "dataCollector", prompt |-> "collect",
                        dataPoints |-> << [name |-> "a", value |-> ""] >>]]
SeqUnknownTypeConfig ==
    [paradigm |-> "sequential",
     startingAgent |-> [type |-> "router", prompt |-> "route",
                        children |-> << [type |-> "browser-agent", prompt |-> "browse"] >>]]
SeqInvalidConfigs ==
    { [startingAgent |-> [type |-> "router", prompt |-> "route"]],
      [paradigm |-> "Agentic", startingAgent |-> [type |-> "router", prompt |-> "route"]],
      [paradigm |-> "sequential", subAgents |-> <<>>] }
SeqConfigs ==
    {SEQ_DEFAULT_JSON_CONFIG, SeqLeafCollectorConfig, SeqUnknownTypeConfig}
    \cup SeqInvalidConfigs

\* arguments the language model may pass to the handlers
RouteIdentifiers == {"1", "1_1", "1_1_1", "1_2", "9"}
DataNames == {"a", "b"}
DataValues == {"", "v"}

\* SequentialFlowData.__init__
SequentialFlowData ==
    [current_config |-> SEQ_DEFAULT_JSON_CONFIG,
     flow_tree |-> <<>>,
     paradigm |-> "sequential",
     current_agent_id |-> "1",
     collected_data |-> <<>>,
     conversation_state |-> [current_agent_id |-> "1", flow_active |-> TRUE]]

\* add_identifiers_to_json: process_agent and its loop over the children
RECURSIVE process_agent(_, _)
RECURSIVE ProcessChildren(_, _, _)
process_agent(agent, identifier) ==
    [k \in DOMAIN agent \cup {"identifier"} |->
        IF k = "identifier" THEN identifier
        ELSE IF k = "children" THEN ProcessChildren(agent.children, 1, identifier)
        ELSE agent[k]]
ProcessChildren(children, i, identifier) ==
    IF i > Len(children) THEN <<>>
    ELSE <<process_agent(children[i], identifier \o "_" \o ToString(i))>>
         \o ProcessChildren(children, i + 1, identifier)

add_identifiers_to_json(config) ==
    IF "startingAgent" \in DOMAIN config
    THEN [config EXCEPT !.startingAgent = process_agent(config.startingAgent, "1")]
    ELSE config

\* build_agent_lookup: the tree flattened into identifier -> agent
RECURSIVE build_agent_lookup(_, _)
RECURSIVE BuildLookupOfChildren(_, _)
build_agent_lookup(agent, lookup) ==
    LET own == Put(lookup, agent.identifier, agent)
    IN IF "children" \in DOMAIN agent
       THEN BuildLookupOfChildren(agent.children, own)
       ELSE own
BuildLookupOfChildren(children, lookup) ==
    IF children = <<>> THEN lookup
    ELSE BuildLookupOfChildren(Tail(children), build_agent_lookup(Head(children), lookup))

\* load_configuration without the clear() of collected_data
SequentialJSONFlowAgent_load_configuration_keeping_data(fd, config) ==
    IF "paradigm" \notin DOMAIN config THEN Raise("ValueError")
    ELSE IF config.paradigm # "sequential" THEN Raise("ValueError")
    ELSE IF "startingAgent" \notin DOMAIN config THEN Raise("ValueError")
    ELSE LET processed_config == add_identifiers_to_json(config)
         IN Ok([current_config |-> processed_config,
                paradigm |-> processed_config.paradigm,
                flow_tree |-> build_agent_lookup(processed_config.startingAgent, <<>>),
                conversation_state |-> [current_agent_id |-> "1", flow_active |-> TRUE],
                current_agent_id |-> "1",
                collected_data |-> fd.collected_data])

\* SequentialJSONFlowAgent.load_configuration on the session state fd
SequentialJSONFlowAgent_load_configuration(fd, config) ==
    IF "paradigm" \notin DOMAIN config THEN Raise("ValueError")
    ELSE IF config.paradigm # "sequential" THEN Raise("ValueError")
    ELSE IF "startingAgent" \notin DOMAIN config THEN Raise("ValueError")
    ELSE LET processed_config == add_identifiers_to_json(config)
         IN Ok([current_config |-> processed_config,
                paradigm |-> processed_config.paradigm,
                flow_tree |-> build_agent_lookup(processed_config.startingAgent, <<>>),
                conversation_state |-> [current_agent_id |-> "1", flow_active |-> TRUE],
                current_agent_id |-> "1",
                collected_data |-> <<>>])

\* cleanup that resets the configuration and leaves the conversation's data
SequentialJSONFlowAgent_cleanup_own_only(fd) ==
    [fd EXCEPT !.current_config = SEQ_DEFAULT_JSON_CONFIG, !.paradigm = "sequential"]

\* SequentialJSONFlowAgent.cleanup, lines 742-748
SequentialJSONFlowAgent_cleanup(fd) ==
    [current_config |-> SEQ_DEFAULT_JSON_CONFIG,
     flow_tree |-> <<>>,
     collected_data |-> <<>>,
     paradigm |-> "sequential",
     current_agent_id |-> "1",
     conversation_state |-> [current_agent_id |-> "1", flow_active |-> TRUE]]

\* a node of the conversation: its kind, the agent it renders and the
\* functions it offers; NoNode is the None a handler returns to stay
Node(kind, agent_id, functions) ==
    [kind |-> kind, agent_id |-> agent_id, functions |-> functions]
NoNode == Node("none", "", {})

AgentChildren(agent) == IF "children" \in DOMAIN agent THEN agent.children ELSE <<>>
AgentDataPoints(agent) == IF "dataPoints" \in DOMAIN agent THEN agent.dataPoints ELSE <<>>

\* the test of lines 323-326 and 487-490 looking at the names only
AllCollected_names_only(data_points, collected_data) ==
    \A i \in 1..Len(data_points) : data_points[i].name \in DOMAIN collected_data

\* lines 323-326 and 487-490: every declared point has a non-empty value
AllCollected(data_points, collected_data) ==
    \A i \in 1..Len(data_points) :
        /\ data_points[i].name \in DOMAIN collected_data
        /\ collected_data[data_points[i].name] # ""

create_router_node(agent) == Node("router", agent.identifier, {"routeToNode"})

\* create_data_collector_node offering routeToNode without looking at the children
create_data_collector_node_childless(fd, agent) ==
    LET agent_id == agent.identifier
        collected_data == IF agent_id \in DOMAIN fd.collected_data
                          THEN fd.collected_data[agent_id] ELSE <<>>
        all_collected == AllCollected(AgentDataPoints(agent), collected_data)
    IN Node("dataCollector", agent_id,
            {"recordData"} \cup (IF all_collected THEN {"routeToNode"} ELSE {}))

create_data_collector_node(fd, agent) ==
    LET agent_id == agent.identifier
        collected_data == IF agent_id \in DOMAIN fd.collected_data
                          THEN fd.collected_data[agent_id] ELSE <<>>
        all_collected == AllCollected(AgentDataPoints(agent), collected_data)
    IN Node("dataCollector", agent_id,
            {"recordData"}
            \cup (IF all_collected /\ AgentChildren(agent) # <<>>
                  THEN {"routeToNode"} ELSE {}))

create_email_agent_node(agent) == Node("emailAgent", agent.identifier, {"sendEmail"})

create_end_node == Node("end", "", {})

\* the dispatch on the agent type of lines 289-297 and 417-425
NodeOfAgent(fd, agent) ==
    CASE agent.type = "dataCollector" -> create_data_collector_node(fd, agent)
      [] agent.type = "router" -> create_router_node(agent)
      [] agent.type = "emailAgent" -> create_email_agent_node(agent)
      [] OTHER -> create_end_node

\* create_starting_node: flow_tree["1"] raises KeyError on an emptied tree
create_starting_node(fd) ==
    IF "1" \in DOMAIN fd.flow_tree THEN Ok(NodeOfAgent(fd, fd.flow_tree["1"]))
    ELSE Raise("KeyError")

\* what a handler leaves: the session state, its result (or the exception
\* that left it) and the next node
Handled(fd, result, next_node) == [fd |-> fd, result |-> result, next_node |-> next_node]

\* route_to_node moving to the identifier before it validates it
route_to_node_unvalidated(fd, node_identifier) ==
    LET moved == [fd EXCEPT !.conversation_state.current_agent_id = node_identifier,
                           !.current_agent_id = node_identifier]
    IN IF node_identifier \notin DOMAIN fd.flow_tree
       THEN Handled(moved,
                    Ok([current_agent_id |-> moved.current_agent_id,
                        routed_to |-> node_identifier, status |-> "error"]),
                    NoNode)
       ELSE Handled(moved,
                    Ok([current_agent_id |-> moved.current_agent_id,
                        routed_to |-> node_identifier, status |-> "success"]),
                    NodeOfAgent(moved, fd.flow_tree[node_identifier]))

\* route_to_node accepting the children of the current agent only
route_to_node_children_only(fd, node_identifier) ==
    LET current == IF fd.current_agent_id \in DOMAIN fd.flow_tree
                   THEN AgentChildren(fd.flow_tree[fd.current_agent_id]) ELSE <<>>
        is_child == \E i \in 1..Len(current) : current[i].identifier = node_identifier
    IN IF node_identifier \notin DOMAIN fd.flow_tree \/ ~is_child
       THEN Handled(fd,
                    Ok([current_agent_id |-> fd.current_agent_id,
                        routed_to |-> node_identifier, status |-> "error"]),
                    NoNode)
       ELSE LET moved == [fd EXCEPT !.conversation_state.current_agent_id = node_identifier,
                                   !.current_agent_id = node_identifier]
            IN Handled(moved,
                       Ok([current_agent_id |-> moved.current_agent_id,
                           routed_to |-> node_identifier, status |-> "success"]),
                       NodeOfAgent(moved, fd.flow_tree[node_identifier]))

route_to_node(fd, node_identifier) ==
    IF node_identifier \notin DOMAIN fd.flow_tree
    THEN Handled(fd,
                 Ok([current_agent_id |-> fd.current_agent_id,
                     routed_to |-> node_identifier, status |-> "error"]),
                 NoNode)
    ELSE LET moved == [fd EXCEPT !.conversation_state.current_agent_id = node_identifier,
                                !.current_agent_id = node_identifier]
         IN Handled(moved,
                    Ok([current_agent_id |-> moved.current_agent_id,
                        routed_to |-> node_identifier, status |-> "success"]),
                    NodeOfAgent(moved, fd.flow_tree[node_identifier]))

record_data(fd, data_name, data_value) ==
    LET current_agent_id == fd.current_agent_id
        started == IF current_agent_id \in DOMAIN fd.collected_data
                   THEN fd.collected_data
                   ELSE Put(fd.collected_data, current_agent_id, <<>>)
        stored == [fd EXCEPT !.collected_data =
                       Put(started, current_agent_id,
                           Put(started[current_agent_id], data_name, data_value))]
    IN IF current_agent_id \notin DOMAIN fd.flow_tree
       THEN Handled(stored, Raise("KeyError"), NoNode)
       ELSE LET current_agent == fd.flow_tree[current_agent_id]
                collected_data == stored.collected_data[current_agent_id]
            IN Handled(stored,
                       Ok([agent_id |-> current_agent_id,
                           data_collected |-> collected_data,
                           all_data_collected |->
                               AllCollected(AgentDataPoints(current_agent), collected_data),
                           status |-> "success"]),
                       create_data_collector_node(stored, current_agent))

send_email(fd) ==
    Handled(fd, Ok([agent_id |-> fd.current_agent_id, status |-> "sent"]), create_end_node)

\* a session: no engine, an engine waiting for its participant, a flow
\* manager at a node, or one that failed to initialize
NoSession == [pc |-> "none", node |-> NoNode]

\* the module state once imported: flow_data = SequentialFlowData(), then
\* sequential_json_flow_agent = SequentialJSONFlowAgent() loads the default
SeqVarsInit ==
    /\ flow_data = SequentialJSONFlowAgent_load_configuration(
                       SequentialFlowData, SEQ_DEFAULT_JSON_CONFIG).value
    /\ seq_sessions = [s \in SeqSessionIds |-> NoSession]
    /\ seq_result = [fn |-> "none", session |-> 0, args |-> <<>>,
                     result |-> Raise(""), next_node |-> NoNode]


\* the flow manager after a handler returned: it stays when the next node is
\* None, and the end node ends the conversation
AfterHandler(session, next_node) ==
    IF next_node = NoNode THEN session
    ELSE [session EXCEPT !.node = next_node]

Returned(s, fn, args, handled) ==
    /\ flow_data' = handled.fd
    /\ seq_sessions' = [seq_sessions EXCEPT ![s] = AfterHandler(@, handled.next_node)]
    /\ seq_result' = [fn |-> fn, session |-> s, args |-> args,
                      result |-> handled.result, next_node |-> handled.next_node]

Offers(s, fn) ==
    /\ seq_sessions[s].pc = "active"
    /\ fn \in seq_sessions[s].node.functions

\* SequentialJSONFlowAgent(config) and create_flow_pipeline: the constructor
\* loads the configuration, or raises and leaves no engine
SeqConstruct(s, config) ==
    /\ seq_sessions[s].pc = "none"
    /\ LET loaded == SequentialJSONFlowAgent_load_configuration(flow_data, config)
       IN /\ flow_data' = IF loaded.ok THEN loaded.value ELSE flow_data
          /\ seq_sessions' = [seq_sessions EXCEPT
                                 ![s] = IF loaded.ok THEN [pc |-> "ready", node |-> NoNode]
                                        ELSE @]
          /\ seq_result' = [fn |-> "load_configuration", session |-> s, args |-> <<>>,
                            result |-> IF loaded.ok THEN Ok([status |-> "loaded"]) ELSE loaded,
                            next_node |-> NoNode]
    /\ UNCHANGED <<run_vars, tr_call, agentic_vars, edge_vars>>

\* on_first_participant_joined: flow_manager.initialize(create_starting_node())
SeqJoin(s) ==
    /\ seq_sessions[s].pc = "ready"
    /\ LET starting == create_starting_node(flow_data)
       IN seq_sessions' = [seq_sessions EXCEPT
                              ![s] = IF starting.ok
                                     THEN [pc |-> "active", node |-> starting.value]
                                     ELSE [pc |-> "failed", node |-> NoNode]]
    /\ UNCHANGED <<flow_data, seq_result, run_vars, tr_call, agentic_vars, edge_vars>>

RouteToNode(s, node_identifier) ==
    /\ Offers(s, "routeToNode")
    /\ Returned(s, "routeToNode", <<node_identifier>>,
                route_to_node(flow_data, node_identifier))
    /\ UNCHANGED <<run_vars, tr_call, agentic_vars, edge_vars>>

RecordData(s, data_name, data_value) ==
    /\ Offers(s, "recordData")
    /\ Returned(s, "recordData", <<data_name, data_value>>,
                record_data(flow_data, data_name, data_value))
    /\ UNCHANGED <<run_vars, tr_call, agentic_vars, edge_vars>>

SendEmail(s) ==
    /\ Offers(s, "sendEmail")
    /\ Returned(s, "sendEmail", <<>>, send_email(flow_data))
    /\ UNCHANGED <<run_vars, tr_call, agentic_vars, edge_vars>>

\* cleanup() of the engine of session s
SeqCleanup(s) ==
    /\ seq_sessions[s].pc # "none"
    /\ flow_data' = SequentialJSONFlowAgent_cleanup(flow_data)
    /\ seq_sessions' = [seq_sessions EXCEPT ![s] = NoSession]
    /\ UNCHANGED <<seq_result, run_vars, tr_call, agentic_vars, edge_vars>>

(***************************************************************************)
(* The Agentic engine (core/JSON_flow_agent.py).  json_flow_data is one    *)
(* module-level object shared by every engine instance.  Its sub_agents    *)
(* attribute refers to a list object: load_configuration makes it refer to *)
(* the list of the loaded configuration and cleanup clears the list it     *)
(* refers to, so the lists are kept apart from the references to them.     *)
(***************************************************************************)
AgenticSessionIds == 1..MaxAgenticSessions

\* DEFAULT_JSON_CONFIG["subAgents"]
DEFAULT_SUB_AGENTS ==
    << [type |-> "browser-agent", prompt |-> "search"],
       [type |-> "mail-agent", prompt |-> "summary"] >>

\* the list objects: that of DEFAULT_JSON_CONFIG, the [] of
\* JSONFlowData.__init__, and that of the configuration of each instance
DefaultList == "default"
OwnList == "own"
ConfigList(s) == "config" \o ToString(s)

\* the rooms of the voice API, and the list object of the json_config that a
\* JSON flow room was requested with
VoiceRooms == {"room" \o ToString(i) : i \in 1..MaxVoiceRooms}
RoomList(room) == "config_" \o room

\* configurations handed to the constructor; None stands for json_config
\* absent, which loads DEFAULT_JSON_CONFIG itself
NoneConfig == [none |-> TRUE]
AgenticGoodConfigs ==
    { [paradigm |-> "Agentic",
       subAgents |-> << [type |-> "mail-agent", prompt |-> "report"] >>],
      [paradigm |-> "Agentic"] }
AgenticBadConfigs ==
    { [subAgents |-> << [type |-> "mail-agent", prompt |-> "report"] >>],
      [paradigm |-> "Agentic",
       subAgents |-> << [type |-> "widget", prompt |-> "report"] >>] }
AgenticConfigs == {NoneConfig} \cup AgenticGoodConfigs \cup AgenticBadConfigs

\* agent_id arguments the language model may pass
AgentIds == -1..2

\* the shared state with the lists it can reach
Shared(data, lists) == [data |-> data, lists |-> lists]

\* lines 546-556: the first sub-agent that fails validation raises
ValidSubAgent(sub_agent) ==
    /\ "type" \in DOMAIN sub_agent
    /\ sub_agent.type \in {"browser-agent", "mail-agent"}
    /\ "prompt" \in DOMAIN sub_agent

\* JSONFlowAgent.load_configuration of the configuration object `config_ref`
\* with content `config`, whose subAgents list is the object `list_ref`: the
\* shared state it leaves, and whether it raised
JSONFlowAgent_load_configuration(shared, config_ref, config, list_ref) ==
    IF "paradigm" \notin DOMAIN config
    THEN [shared |-> shared, ok |-> FALSE]
    ELSE LET stored == [shared.data EXCEPT !.current_config = config_ref,
                                           !.paradigm = config.paradigm]
         IN IF "subAgents" \in DOMAIN config
            THEN [shared |-> Shared([stored EXCEPT !.sub_agents = list_ref], shared.lists),
                  ok |-> \A i \in 1..Len(shared.lists[list_ref]) :
                            ValidSubAgent(shared.lists[list_ref][i])]
            ELSE [shared |-> Shared(stored, shared.lists), ok |-> TRUE]

\* JSONFlowAgent.cleanup, lines 675-678: sub_agents.clear() empties the list
\* object that sub_agents refers to
JSONFlowAgent_cleanup(shared) ==
    Shared([shared.data EXCEPT !.current_config = DefaultList, !.paradigm = "Agentic"],
           [shared.lists EXCEPT ![shared.data.sub_agents] = <<>>])

\* json_flow_data.sub_agents as the handlers read it
SubAgents(shared) == shared.lists[shared.data.sub_agents]

AgentField(agent, field, default) == IF field \in DOMAIN agent THEN agent[field] ELSE default

\* the nodes of the Agentic conversation
MasterNode == Node("master_node", "", {"browser_function", "mail_function", "end_conversation"})
AgenticEndNode == Node("end", "", {})

\* the checks of browser_function, lines 204-227: the error result, or
\* NoResult when the call goes on to run the browser
NoResult == [none |-> TRUE]
browser_function_checks(shared, agent_id) ==
    IF agent_id < 0 \/ agent_id >= Len(SubAgents(shared))
    THEN [prompt |-> "Invalid agent ID"]
    ELSE LET agent == SubAgents(shared)[agent_id + 1]
         IN IF AgentField(agent, "type", Missing) # "browser-agent"
            THEN [agent_id |-> agent_id,
                  agent_type |-> AgentField(agent, "type", "unknown"),
                  prompt |-> AgentField(agent, "prompt", ""),
                  status |-> "error"]
            ELSE NoResult

\* mail_function handing the conversation to the end node once the mail is done
mail_function_then_end(shared, state, agent_id) ==
    IF agent_id < 0 \/ agent_id >= Len(SubAgents(shared))
    THEN [result |-> [agent_id |-> agent_id, agent_type |-> "mail-agent",
                      prompt |-> "Invalid agent ID", status |-> "error"],
          next_node |-> NoNode, state |-> state]
    ELSE LET agent == SubAgents(shared)[agent_id + 1]
         IN IF AgentField(agent, "type", Missing) # "mail-agent"
            THEN [result |-> [agent_id |-> agent_id,
                              agent_type |-> AgentField(agent, "type", "unknown"),
                              prompt |-> AgentField(agent, "prompt", ""),
                              status |-> "error"],
                  next_node |-> NoNode, state |-> state]
            ELSE [result |-> [agent_id |-> agent_id, agent_type |-> "mail-agent",
                              prompt |-> AgentField(agent, "prompt", ""),
                              status |-> "completed"],
                  next_node |-> AgenticEndNode,
                  state |-> Put(state, "mail_agent_" \o ToString(agent_id) \o "_result",
                           [executed |-> TRUE, agent |-> agent])]

\* mail_function without the check of the sub-agent's type
mail_function_any_type(shared, state, agent_id) ==
    IF agent_id < 0 \/ agent_id >= Len(SubAgents(shared))
    THEN [result |-> [agent_id |-> agent_id, agent_type |-> "mail-agent",
                      prompt |-> "Invalid agent ID", status |-> "error"],
          next_node |-> NoNode, state |-> state]
    ELSE LET agent == SubAgents(shared)[agent_id + 1]
         IN [result |-> [agent_id |-> agent_id, agent_type |-> "mail-agent",
                         prompt |-> AgentField(agent, "prompt", ""),
                         status |-> "completed"],
             next_node |-> MasterNode,
             state |-> Put(state, "mail_agent_" \o ToString(agent_id) \o "_result",
                           [executed |-> TRUE, agent |-> agent])]

\* mail_function: result, next node and the flow manager's keyed state
mail_function(shared, state, agent_id) ==
    IF agent_id < 0 \/ agent_id >= Len(SubAgents(shared))
    THEN [result |-> [agent_id |-> agent_id, agent_type |-> "mail-agent",
                      prompt |-> "Invalid agent ID", status |-> "error"],
          next_node |-> NoNode, state |-> state]
    ELSE LET agent == SubAgents(shared)[agent_id + 1]
         IN IF AgentField(agent, "type", Missing) # "mail-agent"
            THEN [result |-> [agent_id |-> agent_id,
                              agent_type |-> AgentField(agent, "type", "unknown"),
                              prompt |-> AgentField(agent, "prompt", ""),
                              status |-> "error"],
                  next_node |-> NoNode, state |-> state]
            ELSE [result |-> [agent_id |-> agent_id, agent_type |-> "mail-agent",
                              prompt |-> AgentField(agent, "prompt", ""),
                              status |-> "completed"],
                  next_node |-> MasterNode,
                  state |-> Put(state, "mail_agent_" \o ToString(agent_id) \o "_result",
                           [executed |-> TRUE, agent |-> agent])]

\* an instance: the configuration it was constructed with and the sub-agents
\* that configuration listed then, where its flow manager is, the flow
\* manager's keyed state and a browser_function call in progress
NoAgenticSession ==
    [pc |-> "none", config |-> NoneConfig, own |-> <<>>, node |-> NoNode,
     state |-> <<>>, browsing |-> NoResult]

\* the module state once imported: json_flow_data = JSONFlowData(), then
\* json_flow_agent = JSONFlowAgent() loads DEFAULT_JSON_CONFIG
AgenticVarsInit ==
    LET lists == [ref \in {DefaultList, OwnList}
                            \cup {ConfigList(s) : s \in AgenticSessionIds}
                            \cup {RoomList(room) : room \in VoiceRooms}
                    |-> IF ref = DefaultList THEN DEFAULT_SUB_AGENTS ELSE <<>>]
        fresh == [current_config |-> DefaultList, sub_agents |-> OwnList,
                  paradigm |-> "Agentic"]
        loaded == JSONFlowAgent_load_configuration(
                      Shared(fresh, lists), DefaultList,
                      [paradigm |-> "Agentic", subAgents |-> DEFAULT_SUB_AGENTS],
                      DefaultList).shared
    IN /\ json_flow_data = loaded.data
       /\ sub_agent_lists = loaded.lists
       /\ agentic_sessions = [s \in AgenticSessionIds |-> NoAgenticSession]
       /\ agentic_result = [fn |-> "none", agent_id |-> 0,
                            result |-> NoResult, next_node |-> NoNode]

SharedNow == Shared(json_flow_data, sub_agent_lists)
SetShared(shared) ==
    /\ json_flow_data' = shared.data
    /\ sub_agent_lists' = shared.lists

\* JSONFlowAgent(json_config) and create_flow_pipeline: json_config or
\* DEFAULT_JSON_CONFIG is loaded; when the load raises, no instance exists
AgenticConstruct(s, json_config) ==
    /\ agentic_sessions[s].pc = "none"
    /\ LET is_default == json_config = NoneConfig
           config == IF is_default
                     THEN [paradigm |-> "Agentic",
                           subAgents |-> sub_agent_lists[DefaultList]]
                     ELSE json_config
           list_ref == IF is_default THEN DefaultList ELSE ConfigList(s)
           created == IF ~is_default /\ "subAgents" \in DOMAIN config
                      THEN [sub_agent_lists EXCEPT ![list_ref] = config.subAgents]
                      ELSE sub_agent_lists
           loaded == JSONFlowAgent_load_configuration(
                         Shared(json_flow_data, created),
                         IF is_default THEN DefaultList ELSE ConfigList(s),
                         config, list_ref)
       IN /\ SetShared(loaded.shared)
          /\ agentic_sessions' =
                [agentic_sessions EXCEPT
                    ![s] = IF loaded.ok
                           THEN [NoAgenticSession EXCEPT
                                    !.pc = "ready",
                                    !.config = json_config,
                                    !.own = IF "subAgents" \in DOMAIN config
                                            THEN created[list_ref] ELSE <<>>]
                           ELSE @]
          /\ agentic_result' = [fn |-> "load_configuration", agent_id |-> 0,
                                result |-> [loaded |-> loaded.ok], next_node |-> NoNode]
    /\ UNCHANGED <<run_vars, tr_call, seq_vars, edge_vars>>

\* on_first_participant_joined, lines 626-633
AgenticJoin(s) ==
    /\ agentic_sessions[s].pc = "ready"
    /\ agentic_sessions' =
          [agentic_sessions EXCEPT
              ![s] = IF json_flow_data.paradigm = "Agentic"
                     THEN [@ EXCEPT !.pc = "active", !.node = MasterNode]
                     ELSE [@ EXCEPT !.pc = "uninitialized"]]
    /\ UNCHANGED <<json_flow_data, sub_agent_lists, agentic_result,
                   run_vars, tr_call, seq_vars, edge_vars>>

AgenticOffers(s, fn) ==
    /\ agentic_sessions[s].pc = "active"
    /\ fn \in agentic_sessions[s].node.functions

\* browser_function up to its first await: the checks, and the sub-agent
\* it will run
BrowserCall(s, agent_id) ==
    /\ AgenticOffers(s, "browser_function")
    /\ LET refused == browser_function_checks(SharedNow, agent_id)
       IN IF refused # NoResult
          THEN /\ agentic_result' = [fn |-> "browser_function", agent_id |-> agent_id, result |-> refused,
                                     next_node |-> NoNode]
               /\ UNCHANGED agentic_sessions
          ELSE /\ agentic_sessions' =
                     [agentic_sessions EXCEPT
                         ![s].pc = "browsing",
                         ![s].browsing = [agent_id |-> agent_id,
                                          agent |-> SubAgents(SharedNow)[agent_id + 1]]]
               /\ UNCHANGED agentic_result
    /\ UNCHANGED <<json_flow_data, sub_agent_lists, run_vars, tr_call, seq_vars, edge_vars>>

\* the browser run ends: it raised, or lines 327-343 store the execution
\* result and stay on the node
BrowserEnd(s, raises) ==
    /\ agentic_sessions[s].pc = "browsing"
    /\ LET call == agentic_sessions[s].browsing
       IN IF raises
          THEN /\ agentic_sessions' = [agentic_sessions EXCEPT ![s].pc = "active",
                                                               ![s].browsing = NoResult]
               /\ agentic_result' = [fn |-> "browser_function", agent_id |-> call.agent_id,
                                     result |-> [raised |-> TRUE], next_node |-> NoNode]
          ELSE /\ agentic_sessions' =
                     [agentic_sessions EXCEPT
                         ![s].pc = "active",
                         ![s].browsing = NoResult,
                         ![s].state = Put(@, "browser_agent_" \o ToString(call.agent_id)
                                              \o "_result",
                                          [executed |-> TRUE, agent |-> call.agent])]
               /\ agentic_result' = [fn |-> "browser_function", agent_id |-> call.agent_id,
                                     result |-> [agent_id |-> call.agent_id,
                                                 agent_type |-> "browser-agent",
                                                 prompt |-> AgentField(call.agent, "prompt", ""),
                                                 status |-> "ran"],  \* history.is_successful
                                     next_node |-> NoNode]
    /\ UNCHANGED <<json_flow_data, sub_agent_lists, run_vars, tr_call, seq_vars, edge_vars>>

MailCall(s, agent_id) ==
    /\ AgenticOffers(s, "mail_function")
    /\ LET done == mail_function(SharedNow, agentic_sessions[s].state, agent_id)
       IN /\ agentic_sessions' =
                [agentic_sessions EXCEPT
                    ![s].state = done.state,
                    ![s].node = IF done.next_node = NoNode THEN @ ELSE done.next_node]
          /\ agentic_result' = [fn |-> "mail_function", agent_id |-> agent_id, result |-> done.result,
                                next_node |-> done.next_node]
    /\ UNCHANGED <<json_flow_data, sub_agent_lists, run_vars, tr_call, seq_vars, edge_vars>>

\* end_conversation: the end node, whose post action ends the conversation
EndConversation(s) ==
    /\ AgenticOffers(s, "end_conversation")
    /\ agentic_sessions' = [agentic_sessions EXCEPT ![s].pc = "ended",
                                                    ![s].node = AgenticEndNode]
    /\ agentic_result' = [fn |-> "end_conversation", agent_id |-> 0,
                          result |-> [status |-> "completed"],
                          next_node |-> AgenticEndNode]
    /\ UNCHANGED <<json_flow_data, sub_agent_lists, run_vars, tr_call, seq_vars, edge_vars>>

\* cleanup() of the engine of session s
AgenticCleanup(s) ==
    /\ agentic_sessions[s].pc # "none"
    /\ SetShared(JSONFlowAgent_cleanup(SharedNow))
    /\ agentic_sessions' = [agentic_sessions EXCEPT ![s] = NoAgenticSession]
    /\ UNCHANGED <<agentic_result, run_vars, tr_call, seq_vars, edge_vars>>

(***************************************************************************)
(* The voice API (api/voice.py): the three registries of running agents,   *)
(* the background task that runs the agent of a room, and the endpoints    *)
(* that read and clean the registries.  A JSON flow room has an engine     *)
(* instance of its own; every productivity room uses the one instance      *)
(* productivity_flow_agent, whose task attribute is the pipeline task of   *)
(* the room that created a pipeline last.                                  *)
(***************************************************************************)
VoiceRequestIds == 1..MaxVoiceRequests

\* json_config of JSONFlowRoomRequest: absent, valid, and without paradigm
VoiceConfigs ==
    { NoneConfig,
      [paradigm |-> "Agentic",
       subAgents |-> << [type |-> "mail-agent", prompt |-> "report"] >>],
      [subAgents |-> << [type |-> "mail-agent", prompt |-> "report"] >>] }

\* voice.py lines 14-17: the sequential engine is disabled
SequentialJSONFlowAgent_available == FALSE
PIPECAT_AVAILABLE == TRUE

NoRoom == "<no room>"
NoVoiceTask == [kind |-> "none", json_config |-> NoneConfig, pc |-> "none",
                pipeline |-> "none"]
NoVoiceRequest == [pc |-> "idle", room |-> NoRoom, registry |-> "none",
                   found |-> FALSE, status_code |-> 0, status |-> "none"]
NoVoiceResponse == [endpoint |-> "none", status_code |-> 0]

Pop(f, k) == [x \in DOMAIN f \ {k} |-> f[x]]

VoiceVarsInit ==
    /\ active_agents = <<>>
    /\ active_json_agents = <<>>
    /\ active_sequential_agents = <<>>
    /\ voice_tasks = [room \in VoiceRooms |-> NoVoiceTask]
    /\ productivity_task = NoRoom
    /\ voice_requests = [q \in VoiceRequestIds |-> NoVoiceRequest]
    /\ voice_http = NoVoiceResponse

\* the registries as one value, by the agent type cleanup_room reports
Registries ==
    [productivity |-> active_agents, json_flow |-> active_json_agents,
     sequential_flow |-> active_sequential_agents]
SetRegistries(registries) ==
    /\ active_agents' = registries.productivity
    /\ active_json_agents' = registries.json_flow
    /\ active_sequential_agents' = registries.sequential_flow

\* PipelineTask.done() of the pipeline task of a room
PipelineDone(room) == voice_tasks[room].pipeline \in {"finished", "cancelled"}

\* create_json_flow_room: create_room() raised, or the task is scheduled
CreateJsonFlowRoom(room, json_config, created) ==
    /\ voice_tasks[room].kind = "none"
    /\ IF ~created
       THEN /\ voice_http' = [endpoint |-> "create_json_flow_room", status_code |-> 500]
            /\ UNCHANGED voice_tasks
       ELSE /\ voice_tasks' = [voice_tasks EXCEPT
                                  ![room] = [NoVoiceTask EXCEPT !.kind = "json_flow",
                                                                !.json_config = json_config,
                                                                !.pc = "scheduled"]]
            /\ voice_http' =
                  [endpoint |-> "create_json_flow_room", status_code |-> 200,
                   room |-> room, agentStatus |-> "starting",
                   paradigm |-> IF json_config = NoneConfig THEN "Agentic"
                                ELSE AgentField(json_config, "paradigm", "Agentic"),
                   subAgentsCount |-> IF json_config = NoneConfig THEN 0
                                      ELSE Len(AgentField(json_config, "subAgents", <<>>))]
    /\ UNCHANGED <<registry_vars, productivity_task, voice_requests,
                   run_vars, tr_call, seq_vars, agentic_vars, limiter_vars, call_vars>>

\* create_productivity_room
CreateProductivityRoom(room, created) ==
    /\ voice_tasks[room].kind = "none"
    /\ IF ~created
       THEN /\ voice_http' = [endpoint |-> "create_productivity_room", status_code |-> 500]
            /\ UNCHANGED voice_tasks
       ELSE /\ voice_tasks' = [voice_tasks EXCEPT
                                  ![room] = [NoVoiceTask EXCEPT !.kind = "productivity",
                                                                !.pc = "scheduled"]]
            /\ voice_http' = [endpoint |-> "create_productivity_room", status_code |-> 200,
                              room |-> room, agentStatus |-> "starting"]
    /\ UNCHANGED <<registry_vars, productivity_task, voice_requests,
                   run_vars, tr_call, seq_vars, agentic_vars, limiter_vars, call_vars>>

\* create_sequential_flow_room, lines 311-315
CreateSequentialFlowRoom ==
    /\ ~PIPECAT_AVAILABLE \/ ~SequentialJSONFlowAgent_available
    /\ voice_http' = [endpoint |-> "create_sequential_flow_room", status_code |-> 503]
    /\ UNCHANGED <<registry_vars, voice_tasks, productivity_task, voice_requests,
                   run_vars, tr_call, seq_vars, agentic_vars, limiter_vars, call_vars>>

\* the handler `except Exception` of the three background tasks: the entry
\* of the room, if there is one, gets status error
MarkError(registry, room) ==
    IF room \in DOMAIN registry
    THEN [registry EXCEPT ![room].status = "error"]
    ELSE registry

\* JSONFlowAgent(json_config) for a room: the shared state it leaves and
\* whether load_configuration raised
JSONFlowAgent_of_room(shared, room, json_config) ==
    LET is_default == json_config = NoneConfig
        config == IF is_default
                  THEN [paradigm |-> "Agentic", subAgents |-> shared.lists[DefaultList]]
                  ELSE json_config
        list_ref == IF is_default THEN DefaultList ELSE RoomList(room)
        created == IF ~is_default /\ "subAgents" \in DOMAIN config
                   THEN [shared.lists EXCEPT ![list_ref] = config.subAgents]
                   ELSE shared.lists
    IN JSONFlowAgent_load_configuration(Shared(shared.data, created), list_ref,
                                        config, list_ref)

\* run_json_flow_agent up to `await agent.run_flow()`: the constructor and
\* create_flow_pipeline have no suspension point; either may raise, and the
\* entry is stored after both
RunJsonFlowAgent(room, pipeline_raises) ==
    /\ voice_tasks[room].kind = "json_flow"
    /\ voice_tasks[room].pc = "scheduled"
    /\ LET loaded == JSONFlowAgent_of_room(SharedNow, room, voice_tasks[room].json_config)
       IN /\ SetShared(loaded.shared)
          /\ IF ~loaded.ok \/ pipeline_raises
             THEN /\ active_json_agents' = MarkError(active_json_agents, room)
                  /\ voice_tasks' = [voice_tasks EXCEPT ![room].pc = "failed"]
             ELSE /\ active_json_agents' =
                        Put(active_json_agents, room,
                            [status |-> "running",
                             paradigm |-> loaded.shared.data.paradigm,
                             sub_agents_count |-> Len(SubAgents(loaded.shared))])
                  /\ voice_tasks' = [voice_tasks EXCEPT ![room].pc = "running",
                                                        ![room].pipeline = "live"]
    /\ UNCHANGED <<active_agents, active_sequential_agents, productivity_task,
                   voice_requests, voice_http, agentic_sessions, agentic_result,
                   run_vars, tr_call, seq_vars, limiter_vars, call_vars>>

\* run_productivity_agent up to `await agent.run_flow()`
RunProductivityAgent(room, pipeline_raises) ==
    /\ voice_tasks[room].kind = "productivity"
    /\ voice_tasks[room].pc = "scheduled"
    /\ IF pipeline_raises
       THEN /\ active_agents' = MarkError(active_agents, room)
            /\ voice_tasks' = [voice_tasks EXCEPT ![room].pc = "failed"]
            /\ UNCHANGED productivity_task
       ELSE /\ active_agents' = Put(active_agents, room, [status |-> "running"])
            /\ voice_tasks' = [voice_tasks EXCEPT ![room].pc = "running",
                                                  ![room].pipeline = "live"]
            /\ productivity_task' = room
    /\ UNCHANGED <<active_json_agents, active_sequential_agents, voice_requests,
                   voice_http, run_vars, tr_call, seq_vars, agentic_vars, limiter_vars, call_vars>>

\* the registry a background task of this kind writes
RegistryOf(kind) == IF kind = "json_flow" THEN "json_flow" ELSE "productivity"

\* `await agent.run_flow()` ends: it returns, it raises, or, once the
\* pipeline task was cancelled, CancelledError reaches the background task;
\* lines 120-125 and 191-196
AgentRunEnds(room, outcome) ==
    /\ voice_tasks[room].pc = "running"
    /\ outcome = "cancelled" => voice_tasks[room].pipeline = "cancelled"
    /\ LET name == RegistryOf(voice_tasks[room].kind)
           registry == Registries[name]
       IN SetRegistries([Registries EXCEPT
              ![name] = CASE outcome = "cancelled" -> Pop(registry, room)
                          [] outcome = "raised" -> MarkError(registry, room)
                          [] OTHER -> registry])
    /\ voice_tasks' =
          [voice_tasks EXCEPT
              ![room].pc = CASE outcome = "cancelled" -> "cancelled"
                             [] outcome = "raised" -> "failed"
                             [] OTHER -> "returned",
              ![room].pipeline = IF @ = "live" THEN "finished" ELSE @]
    /\ UNCHANGED <<productivity_task, voice_requests, voice_http,
                   run_vars, tr_call, seq_vars, agentic_vars, limiter_vars, call_vars>>

\* get_room_status: the first registry that has the room answers
get_room_status(room) ==
    IF room \in DOMAIN active_agents
    THEN [agent_type |-> "productivity", agent_status |-> active_agents[room].status]
    ELSE IF room \in DOMAIN active_json_agents
    THEN [agent_type |-> "json_flow", agent_status |-> active_json_agents[room].status]
    ELSE IF room \in DOMAIN active_sequential_agents
    THEN [agent_type |-> "sequential_flow",
          agent_status |-> active_sequential_agents[room].status]
    ELSE [agent_type |-> "none", agent_status |-> "not_found"]

GetRoomStatus(room) ==
    /\ voice_http' = [endpoint |-> "get_room_status", status_code |-> 200, room |-> room,
                      agent_status |-> get_room_status(room).agent_status]
    /\ UNCHANGED <<registry_vars, voice_tasks, productivity_task, voice_requests,
                   run_vars, tr_call, seq_vars, agentic_vars, limiter_vars, call_vars>>

\* the pipeline task that cleanup() of the room's agent looks at
AgentTask(agent_type, room) ==
    IF agent_type = "productivity" THEN productivity_task ELSE room

\* the rest of agent.cleanup() and of cleanup_room after it: the engine's
\* shared state is reset, then `del` of the room's entry raises KeyError
\* when the entry is gone, and `except Exception` answers 500
FinishCleanup(q, room, agent_type, requests) ==
    LET registry == Registries[agent_type]
    IN /\ IF agent_type = "json_flow"
          THEN SetShared(JSONFlowAgent_cleanup(SharedNow))
          ELSE UNCHANGED <<json_flow_data, sub_agent_lists>>
       /\ IF room \in DOMAIN registry
          THEN /\ SetRegistries([Registries EXCEPT ![agent_type] = Pop(registry, room)])
               /\ voice_requests' =
                     [requests EXCEPT ![q].pc = "done", ![q].status_code = 200,
                                      ![q].status = "cleaned_up"]
          ELSE /\ UNCHANGED registry_vars
               /\ voice_requests' =
                     [requests EXCEPT ![q].pc = "done", ![q].status_code = 500,
                                      ![q].status = "Failed to cleanup room"]

\* cleanup_room up to `await self.task` in agent.cleanup(): without a live
\* pipeline task the call has no suspension point
CleanupRoom(q, room) ==
    /\ voice_requests[q].pc = "idle"
    /\ LET found == get_room_status(room).agent_type
           begun == [voice_requests EXCEPT ![q].room = room, ![q].registry = found,
                                           ![q].found = found # "none"]
           task == AgentTask(found, room)
       IN IF found = "none"
          THEN /\ voice_requests' = [begun EXCEPT ![q].pc = "done", ![q].status_code = 200,
                                                  ![q].status = "not_found"]
               /\ UNCHANGED <<registry_vars, voice_tasks, json_flow_data, sub_agent_lists>>
          ELSE IF task # NoRoom /\ ~PipelineDone(task)
          THEN /\ voice_tasks' = [voice_tasks EXCEPT ![task].pipeline = "cancelled"]
               /\ voice_requests' = [begun EXCEPT ![q].pc = "cleaning"]
               /\ UNCHANGED <<registry_vars, json_flow_data, sub_agent_lists>>
          ELSE /\ FinishCleanup(q, room, found, begun)
               /\ UNCHANGED voice_tasks
    /\ UNCHANGED <<productivity_task, voice_http, agentic_sessions, agentic_result,
                   run_vars, tr_call, seq_vars, limiter_vars, call_vars>>

\* cleanup_room resumes after `await self.task`
CleanupRoomResume(q) ==
    /\ voice_requests[q].pc = "cleaning"
    /\ FinishCleanup(q, voice_requests[q].room, voice_requests[q].registry, voice_requests)
    /\ UNCHANGED <<voice_tasks, productivity_task, voice_http, agentic_sessions,
                   agentic_result, run_vars, tr_call, seq_vars, limiter_vars, call_vars>>

(***************************************************************************)
(* The rate limiter (core/rate_limiter.py) in front of POST /api/mail.     *)
(* The decorator of send_mail asks the limiter before the body runs; the   *)
(* window counters themselves are kept by the limiter library and are      *)
(* modelled as fixed window counters, one per client identifier.  Each     *)
(* client tallies its requests of the window as test_rate_limit does.      *)
(***************************************************************************)
\* core/config.py: settings.rate_limit_enabled, settings.rate_limit_mail_send
rate_limit_enabled == TRUE
rate_limit_mail_send == 30

\* remote addresses of the clients
Clients == {"10.0.0.1", "10.0.0.2"}

\* what the body of send_mail answers
MailBodyStatuses == {200, 400, 500, 503}

get_client_identifier(request) == request.remote_address

\* get_mail_limit: "<rate_limit_mail_send> per minute"
get_mail_limit == [amount |-> rate_limit_mail_send, per |-> "minute"]

NoCounter == [window |-> 0, count |-> 0]
NoTally == [sent |-> 0, rate_limited |-> 0]

LimiterVarsInit ==
    /\ limiter_storage = [client \in Clients |-> NoCounter]
    /\ limiter_clock = 1
    /\ limiter_tally = [client \in Clients |-> NoTally]
    /\ limiter_http = [client |-> "none", status_code |-> 0, headers |-> <<>>]

\* the fixed window counter of `key`: a hit within the limit is counted, a
\* hit beyond it raises RateLimitExceeded
FixedWindowHit(storage, key, limit, window) ==
    LET count == IF storage[key].window = window THEN storage[key].count ELSE 0
    IN IF count < limit.amount
       THEN [exceeded |-> FALSE, remaining |-> limit.amount - (count + 1),
             storage |-> [storage EXCEPT ![key] = [window |-> window, count |-> count + 1]]]
       ELSE [exceeded |-> TRUE, remaining |-> 0, storage |-> storage]

\* RateLimitExceeded as the limiter raises it
RateLimitExceeded(limit) == [limit |-> limit.amount, detail |-> limit]

\* rate_limit_handler without the Retry-After header
rate_limit_handler_without_retry_after(exc) ==
    [status_code |-> 429,
     content |-> [error |-> "Rate limit exceeded",
                  retry_after |-> IF "retry_after" \in DOMAIN exc THEN exc.retry_after ELSE 60],
     headers |-> [h \in {"X-RateLimit-Limit", "X-RateLimit-Remaining", "X-RateLimit-Reset"} |->
                    CASE h = "X-RateLimit-Limit" ->
                            IF "limit" \in DOMAIN exc THEN ToString(exc.limit) ELSE "100"
                      [] h = "X-RateLimit-Remaining" -> "0"
                      [] OTHER -> IF "reset" \in DOMAIN exc THEN ToString(exc.reset) ELSE ""]]

\* rate_limit_handler, lines 49-72
rate_limit_handler(exc) ==
    LET retry_after == IF "retry_after" \in DOMAIN exc THEN exc.retry_after ELSE 60
    IN [status_code |-> 429,
        content |-> [error |-> "Rate limit exceeded", retry_after |-> retry_after],
        headers |-> [h \in {"Retry-After", "X-RateLimit-Limit", "X-RateLimit-Remaining",
                            "X-RateLimit-Reset"} |->
                       CASE h = "Retry-After" -> ToString(retry_after)
                         [] h = "X-RateLimit-Limit" ->
                               IF "limit" \in DOMAIN exc THEN ToString(exc.limit) ELSE "100"
                         [] h = "X-RateLimit-Remaining" -> "0"
                         [] OTHER -> IF "reset" \in DOMAIN exc THEN ToString(exc.reset) ELSE ""]]

\* a request of POST /api/mail from `client`; body_status is what the body
\* of send_mail answers when the limiter lets the request through
SendMailRequest(client, body_status) ==
    /\ limiter_tally[client].sent < rate_limit_mail_send + MaxOverLimit
    /\ LET key == get_client_identifier([remote_address |-> client])
           hit == IF rate_limit_enabled
                  THEN FixedWindowHit(limiter_storage, key, get_mail_limit, limiter_clock)
                  ELSE [exceeded |-> FALSE, remaining |-> 0, storage |-> limiter_storage]
           response == IF hit.exceeded
                       THEN rate_limit_handler(RateLimitExceeded(get_mail_limit))
                       ELSE [status_code |-> body_status,
                             headers |-> [h \in {"X-RateLimit-Limit", "X-RateLimit-Remaining"} |->
                                            IF h = "X-RateLimit-Limit"
                                            THEN ToString(get_mail_limit.amount)
                                            ELSE ToString(hit.remaining)]]
       IN /\ limiter_storage' = hit.storage
          /\ limiter_http' = [client |-> client, status_code |-> response.status_code,
                              headers |-> response.headers]
          /\ limiter_tally' =
                [limiter_tally EXCEPT
                    ![client].sent = @ + 1,
                    ![client].rate_limited = IF response.status_code = 429 THEN @ + 1 ELSE @]
    /\ UNCHANGED <<limiter_clock, run_vars, tr_call, seq_vars, agentic_vars, voice_vars, call_vars>>

\* the clock enters the next window; the clients start a new tally
NextWindow ==
    /\ limiter_clock < MaxWindows
    /\ limiter_clock' = limiter_clock + 1
    /\ limiter_tally' = [client \in Clients |-> NoTally]
    /\ UNCHANGED <<limiter_storage, limiter_http, run_vars, tr_call, seq_vars,
                   agentic_vars, voice_vars, call_vars>>

\* core/config.py: settings.rate_limit_voice_create
rate_limit_voice_create == 10

\* get_voice_limit: "<rate_limit_voice_create> per minute"
get_voice_limit == [amount |-> rate_limit_voice_create, per |-> "minute"]

\* the limits declared on create_voice_room, voice.py lines 71-72: the route
\* has no limiter.limit decorator, and main.py installs no middleware that
\* would ask the limiter on its behalf
create_voice_room_limits == {}

\* a request of POST /api/voice/rooms from `client`: every declared limit is
\* asked, then create_room() raises or provisions a room
CreateVoiceRoom(client, created) ==
    /\ limiter_tally[client].sent < rate_limit_voice_create + MaxOverLimit
    /\ LET key == get_client_identifier([remote_address |-> client])
           exceeded == \E limit \in create_voice_room_limits :
                          FixedWindowHit(limiter_storage, key, limit, limiter_clock).exceeded
           response == IF exceeded
                       THEN rate_limit_handler(RateLimitExceeded(get_voice_limit))
                       ELSE [status_code |-> IF created THEN 200 ELSE 500, headers |-> <<>>]
       IN /\ limiter_storage' =
                IF exceeded \/ create_voice_room_limits = {}
                THEN limiter_storage
                ELSE FixedWindowHit(limiter_storage, key,
                                    CHOOSE limit \in create_voice_room_limits : TRUE,
                                    limiter_clock).storage
          /\ limiter_http' = [client |-> client, status_code |-> response.status_code,
                              headers |-> response.headers]
          /\ limiter_tally' =
                [limiter_tally EXCEPT
                    ![client].sent = @ + 1,
                    ![client].rate_limited = IF response.status_code = 429 THEN @ + 1 ELSE @]
    /\ UNCHANGED <<limiter_clock, run_vars, tr_call, seq_vars, agentic_vars, voice_vars, call_vars>>

(***************************************************************************)
(* The mail API (api/mail.py): the body of send_mail, once the limiter has *)
(* let the request through.  The provider client is the module-level       *)
(* `client`, None when the key or the library is missing; the provider's   *)
(* operations are recorded in the order they are invoked.                  *)
(***************************************************************************)
\* Python truth of an optional string: None and "" are false
Truthy(value) == value # Missing /\ value # ""

\* values of the environment variable DEBUG, of AGENTMAIL_INBOX_ID, and the
\* optional fields of MailRequest
DebugValues == {Missing, "true", "false", "True"}
InboxIdValues == {Missing, "inbox@agentmail.to"}
HtmlValues == {Missing, "", "<p>hello</p>"}
TextValues == {Missing, "", "hello"}
FromNames == {Missing, "Ann"}

MailRequests ==
    [to : {"ann@example.com"}, subject : {"Hi"}, html : HtmlValues, text : TextValues,
     from_name : FromNames]

\* what the provider does when asked: each operation may raise
Providers == [create_raises : BOOLEAN, send_raises : BOOLEAN]

\* message ids: none, "mock-" followed by hash(to + subject), and the
\* message_id of the provider's response
NoMessageId == [prefix |-> "", of |-> <<>>]
MockMessageId(mail_data) == [prefix |-> "mock-", of |-> <<mail_data.to, mail_data.subject>>]
ProviderMessageId == [prefix |-> "", of |-> <<"message_id">>]

MailResponse(status_code, status, message_id, detail) ==
    [status_code |-> status_code, status |-> status, messageId |-> message_id,
     detail |-> detail]

\* lines 60-73, with the content check of lines 79-83 done first
send_mail_without_client_checked(DEBUG, mail_data) ==
    IF ~Truthy(mail_data.html) /\ ~Truthy(mail_data.text)
    THEN [response |-> MailResponse(400, "error", NoMessageId,
                                    "Either html or text content must be provided"),
          calls |-> <<>>]
    ELSE IF DEBUG = "true"
    THEN [response |-> MailResponse(200, "mocked",
                                    MockMessageId(mail_data),
                                    ""),
          calls |-> <<>>]
    ELSE [response |-> MailResponse(503, "error", NoMessageId, "Mail service not available - check AGENTMAIL_API_KEY and installation"),
          calls |-> <<>>]

\* lines 60-73: no client; the message id is "mock-" followed by the hash of
\* recipient and subject
send_mail_without_client(DEBUG, mail_data) ==
    IF DEBUG = "true"
    THEN [response |-> MailResponse(200, "mocked",
                                    MockMessageId(mail_data),
                                    ""),
          calls |-> <<>>]
    ELSE [response |-> MailResponse(503, "error", NoMessageId, "Mail service not available - check AGENTMAIL_API_KEY and installation"),
          calls |-> <<>>]

\* the content check that takes an empty string for content
ContentMissing_when_absent(mail_data) == mail_data.html = Missing /\ mail_data.text = Missing

\* line 80: `not mail_data.html and not mail_data.text`
ContentMissing(mail_data) == ~Truthy(mail_data.html) /\ ~Truthy(mail_data.text)

CreateInbox(mail_data) ==
    [op |-> "inboxes.create",
     display_name |-> IF Truthy(mail_data.from_name) THEN mail_data.from_name ELSE "Tzelem"]

\* lines 102-108: both contents are handed over as they came
SendMessage(inbox_id, mail_data) ==
    [op |-> "inboxes.messages.send", inbox_id |-> inbox_id, to |-> mail_data.to,
     subject |-> mail_data.subject, html |-> mail_data.html, text |-> mail_data.text]

\* lines 75-126: with a client
send_mail_with_client(AGENTMAIL_INBOX_ID, mail_data, provider) ==
    IF ContentMissing(mail_data)
    THEN [response |-> MailResponse(400, "error", NoMessageId,
                                    "Either html or text content must be provided"),
          calls |-> <<>>]
    ELSE LET creates == ~Truthy(AGENTMAIL_INBOX_ID)
             created == IF creates THEN <<CreateInbox(mail_data)>> ELSE <<>>
             inbox_id == IF creates THEN "created@agentmail.to" ELSE AGENTMAIL_INBOX_ID
         IN IF creates /\ provider.create_raises
            THEN [response |-> MailResponse(500, "error", NoMessageId,
                                            "Failed to create mail inbox"),
                  calls |-> created]
            ELSE IF provider.send_raises
            THEN [response |-> MailResponse(500, "error", NoMessageId, "Failed to send mail"),
                  calls |-> Append(created, SendMessage(inbox_id, mail_data))]
            ELSE [response |-> MailResponse(200, "queued", ProviderMessageId, ""),
                  calls |-> Append(created, SendMessage(inbox_id, mail_data))]

\* send_mail, lines 51-126
send_mail(client, DEBUG, AGENTMAIL_INBOX_ID, mail_data, provider) ==
    IF ~client
    THEN send_mail_without_client(DEBUG, mail_data)
    ELSE send_mail_with_client(AGENTMAIL_INBOX_ID, mail_data, provider)

MailIdle ==
    [pc |-> "idle", client |-> FALSE, DEBUG |-> Missing, AGENTMAIL_INBOX_ID |-> Missing,
     mail_data |-> [to |-> "", subject |-> "", html |-> Missing, text |-> Missing,
                    from_name |-> Missing],
     provider |-> [create_raises |-> FALSE, send_raises |-> FALSE],
     response |-> MailResponse(0, "none", NoMessageId, ""), calls |-> <<>>]

\* one request of POST /api/mail
SendMail ==
    /\ mail_call.pc = "called"
    /\ LET sent == send_mail(mail_call.client, mail_call.DEBUG, mail_call.AGENTMAIL_INBOX_ID,
                             mail_call.mail_data, mail_call.provider)
       IN mail_call' = [mail_call EXCEPT !.pc = "answered", !.response = sent.response,
                                         !.calls = sent.calls]
    /\ UNCHANGED <<run_vars, tr_call, seq_vars, agentic_vars, voice_vars, limiter_vars,
                   flows_call>>

(***************************************************************************)
(* The flows API (api/flows.py): get_flow and list_flows.  The document    *)
(* store is outside the program; what its query does is an input of the    *)
(* call: it raises, or it returns a value, None included.                  *)
(***************************************************************************)
\* a value of the store: None, one flow document, or a list of documents
PyNone == [none |-> TRUE, list |-> FALSE, items |-> <<>>]
PyDocument(flow) == [none |-> FALSE, list |-> FALSE, items |-> <<flow>>]
PyList(flows) == [none |-> FALSE, list |-> TRUE, items |-> flows]

FlowIds == {"flow-1", "flow-2", "flow-3"}
FlowDocuments == [id : FlowIds, name : {"a", "b"}, paradigm : {"Agentic", "Sequential"}]
FlowLists == {<<>>} \cup {<<flow>> : flow \in FlowDocuments}
                    \cup {<<first, second>> : first \in FlowDocuments, second \in FlowDocuments}

\* what client.query does
Raises == [raises |-> TRUE, value |-> PyNone]
Returns(value) == [raises |-> FALSE, value |-> value]
GetFlowQueries ==
    {Raises, Returns(PyNone)} \cup {Returns(PyDocument(flow)) : flow \in FlowDocuments}
ListFlowsQueries ==
    {Raises, Returns(PyNone)} \cup {Returns(PyList(flows)) : flows \in FlowLists}

FlowsResponse(status_code, body, detail) ==
    [status_code |-> status_code, body |-> body, detail |-> detail]

\* get_flow that answers every failure of the query as not found
get_flow_not_found_on_error(flow_id, query) ==
    IF query.raises \/ query.value = PyNone
    THEN FlowsResponse(404, PyNone, "Flow " \o flow_id \o " not found")
    ELSE FlowsResponse(200, query.value, "")

\* get_flow, lines 64-87
get_flow(flow_id, query) ==
    IF query.raises
    THEN FlowsResponse(500, PyNone, "Failed to retrieve flow")
    ELSE IF query.value = PyNone
    THEN FlowsResponse(404, PyNone, "Flow " \o flow_id \o " not found")
    ELSE FlowsResponse(200, query.value, "")

\* list_flows, lines 90-106: `flows or []`
list_flows(query) ==
    IF query.raises
    THEN FlowsResponse(500, PyNone, "Failed to list flows")
    ELSE IF query.value = PyNone \/ query.value = PyList(<<>>)
    THEN FlowsResponse(200, PyList(<<>>), "")
    ELSE FlowsResponse(200, query.value, "")

FlowsIdle ==
    [pc |-> "idle", endpoint |-> "none", flow_id |-> "", query |-> Raises,
     response |-> FlowsResponse(0, PyNone, "")]

GetFlow ==
    /\ flows_call.pc = "called"
    /\ flows_call.endpoint = "get_flow"
    /\ flows_call' = [flows_call EXCEPT
                         !.pc = "answered",
                         !.response = get_flow(flows_call.flow_id, flows_call.query)]
    /\ UNCHANGED <<run_vars, tr_call, seq_vars, agentic_vars, voice_vars, limiter_vars,
                   mail_call>>

ListFlows ==
    /\ flows_call.pc = "called"
    /\ flows_call.endpoint = "list_flows"
    /\ flows_call' = [flows_call EXCEPT !.pc = "answered",
                                        !.response = list_flows(flows_call.query)]
    /\ UNCHANGED <<run_vars, tr_call, seq_vars, agentic_vars, voice_vars, limiter_vars,
                   mail_call>>

CallVarsInit == mail_call = MailIdle /\ flows_call = FlowsIdle

ServiceInit ==
    SeqVarsInit /\ AgenticVarsInit /\ VoiceVarsInit /\ LimiterVarsInit /\ CallVarsInit

(***************************************************************************)
(* The runs API as a whole.                                                *)
(***************************************************************************)
TrIdle == [pc |-> "idle", paradigm |-> Missing, nodes |-> <<>>, edges |-> <<>>,
           result |-> Raise(""), status |-> 0]

Init ==
    /\ active_runs = <<>>
    /\ run_events = <<>>
    /\ tasks = <<>>
    /\ handlers = <<>>
    /\ http = NoResponse
    /\ streams = [s \in StreamIds |-> IdleStream]
    /\ tr_call = TrIdle
    /\ ServiceInit

Next ==
    \/ \E request \in RunRequests : StartRun(request)
    \/ \E run_id \in RunIds, created \in BOOLEAN : RoomCreated(run_id, created)
    \/ \E run_id \in RunIds, raises \in BOOLEAN : ExecuteStart(run_id, raises)
    \/ \E run_id \in RunIds : HeadlessWake(run_id)
    \/ \E run_id \in RunIds, raises \in BOOLEAN : RunFlowEnds(run_id, raises)
    \/ \E s \in StreamIds, run_id \in RunIds : StreamOpen(s, run_id)
    \/ \E s \in StreamIds : StreamResume(s)
    \/ \E s \in StreamIds : StreamWake(s)

Spec == Init /\ [][Next]_vars

\* The event loop runs every task that is ready: a scheduled task starts, a
\* sleep ends, a suspended start_run gets the answer of the room provider.
\* (Nothing makes a voice pipeline end, and no client has to read on.)
TaskFairness ==
    /\ \A run_id \in RunIds : WF_vars(\E raises \in BOOLEAN : ExecuteStart(run_id, raises))
    /\ \A run_id \in RunIds : WF_vars(HeadlessWake(run_id))
    /\ \A run_id \in RunIds : WF_vars(\E created \in BOOLEAN : RoomCreated(run_id, created))

FairSpec == Spec /\ TaskFairness

(***************************************************************************)
(* The translator on its own: one call of translate_flow_to_backend on     *)
(* every input of the bounded sets below.                                  *)
(***************************************************************************)
TrParadigms == {"Agentic", "AGENTIC", "agentic", "Sequential", "Hierarchical", Missing}
TrTypes == {"MasterAgent", "masteragent", "ExecutionAgent", "MailAgent",
            "DataCollectionAgent", "RoutingAgent", "Widget"}
\* the i-th node of a list: any type with its id and prompt, or one of two
\* types without the id key
TrNodeAt(i) ==
    { [id |-> IdOf(i), type |-> t, prompt |-> "p" \o ToString(i)] : t \in TrTypes }
    \cup { [id |-> Missing, type |-> t, prompt |-> Missing] :
             t \in {"MasterAgent", "ExecutionAgent"} }
TrNodeLists ==
    UNION { { ns \in [1..n -> UNION {TrNodeAt(i) : i \in 1..n}] :
                \A i \in 1..n : ns[i] \in TrNodeAt(i) } : n \in 0..MaxNodes }
TrEnds == {IdOf(1), IdOf(2), GhostId}
TrEdgeLists ==
    UNION { [1..n -> [source : TrEnds, target : TrEnds]] : n \in 0..MaxEdges }

TrInit ==
    /\ active_runs = <<>>
    /\ run_events = <<>>
    /\ tasks = <<>>
    /\ handlers = <<>>
    /\ http = NoResponse
    /\ streams = [s \in StreamIds |-> IdleStream]
    /\ ServiceInit
    /\ \E p \in TrParadigms, ns \in TrNodeLists, es \in TrEdgeLists :
          tr_call = [pc |-> "called", paradigm |-> p, nodes |-> ns, edges |-> es,
                     result |-> Raise(""), status |-> 0]

\* the call returns its configuration or raises; status is what start_run
\* answers when it raised (0: start_run goes on)
Translate ==
    LET result == translate_flow_to_backend(tr_call.paradigm, tr_call.nodes, tr_call.edges)
    IN /\ tr_call.pc = "called"
       /\ tr_call' = [tr_call EXCEPT
                         !.pc = "returned",
                         !.result = result,
                         !.status = IF result.ok THEN 0
                                    ELSE TranslationFailureStatus(result.error)]
       /\ UNCHANGED <<run_vars, service_vars>>

TrNext == Translate

TranslateSpec == TrInit /\ [][TrNext]_vars

(***************************************************************************)
(* The sequential translation of flows of up to MaxSeqNodes nodes, each    *)
(* input translated twice.                                                 *)
(***************************************************************************)
SeqTypes == {"RoutingAgent", "MailAgent"}
SeqNodeLists ==
    UNION { [1..n -> SeqTypes] : n \in 0..MaxSeqNodes }
SeqNodes(types) ==
    [i \in 1..Len(types) |-> [id |-> IdOf(i), type |-> types[i],
                              prompt |-> "p" \o ToString(i)]]
SeqEnds == {IdOf(i) : i \in 1..MaxSeqNodes}
SeqEdgeLists ==
    UNION { [1..n -> [source : SeqEnds, target : SeqEnds]] : n \in 0..MaxSeqEdges }

SeqInit ==
    /\ active_runs = <<>>
    /\ run_events = <<>>
    /\ tasks = <<>>
    /\ handlers = <<>>
    /\ http = NoResponse
    /\ streams = [s \in StreamIds |-> IdleStream]
    /\ ServiceInit
    /\ \E p \in {"Sequential", "sequential"}, ts \in SeqNodeLists, es \in SeqEdgeLists :
          tr_call = [pc |-> "called", paradigm |-> p, nodes |-> SeqNodes(ts),
                     edges |-> es, result |-> Raise(""), status |-> 0]

\* the same input is translated once more; the first outcome is kept aside
Retranslate ==
    /\ tr_call.pc = "returned"
    /\ tr_call' = [first |-> tr_call.result]
                   @@ [tr_call EXCEPT
                          !.pc = "again",
                          !.result = translate_flow_to_backend(tr_call.paradigm,
                                                               tr_call.nodes,
                                                               tr_call.edges)]
    /\ UNCHANGED <<run_vars, service_vars>>

SeqNext == Translate \/ Retranslate

SeqTranslateSpec == SeqInit /\ [][SeqNext]_vars

(***************************************************************************)
(* The agentic translation of flows of MaxSeqNodes nodes, any of which may *)
(* be the master, for every edge list of up to MaxSeqEdges edges.          *)
(***************************************************************************)
OrderTypes == {"MasterAgent", "ExecutionAgent", "MailAgent"}

AgenticOrderInit ==
    /\ active_runs = <<>>
    /\ run_events = <<>>
    /\ tasks = <<>>
    /\ handlers = <<>>
    /\ http = NoResponse
    /\ streams = [s \in StreamIds |-> IdleStream]
    /\ ServiceInit
    /\ \E ts \in [1..MaxSeqNodes -> OrderTypes], es \in SeqEdgeLists :
          tr_call = [pc |-> "called", paradigm |-> "Agentic", nodes |-> SeqNodes(ts),
                     edges |-> es, result |-> Raise(""), status |-> 0]

AgenticOrderSpec == AgenticOrderInit /\ [][TrNext]_vars

(***************************************************************************)
(* The Sequential engine on its own.                                       *)
(***************************************************************************)
RunsIdle ==
    /\ active_runs = <<>>
    /\ run_events = <<>>
    /\ tasks = <<>>
    /\ handlers = <<>>
    /\ http = NoResponse
    /\ streams = [s \in StreamIds |-> IdleStream]
    /\ tr_call = TrIdle

SeqEngineInit == RunsIdle /\ ServiceInit

SeqEngineNext ==
    \/ \E s \in SeqSessionIds, config \in SeqConfigs : SeqConstruct(s, config)
    \/ \E s \in SeqSessionIds : SeqJoin(s)
    \/ \E s \in SeqSessionIds, node_identifier \in RouteIdentifiers :
          RouteToNode(s, node_identifier)
    \/ \E s \in SeqSessionIds, data_name \in DataNames, data_value \in DataValues :
          RecordData(s, data_name, data_value)
    \/ \E s \in SeqSessionIds : SendEmail(s)
    \/ \E s \in SeqSessionIds : SeqCleanup(s)

SeqEngineSpec == SeqEngineInit /\ [][SeqEngineNext]_vars

(***************************************************************************)
(* The Agentic engine on its own.                                          *)
(***************************************************************************)
AgenticEngineInit == RunsIdle /\ ServiceInit

AgenticEngineNext ==
    \/ \E s \in AgenticSessionIds, json_config \in AgenticConfigs :
          AgenticConstruct(s, json_config)
    \/ \E s \in AgenticSessionIds : AgenticJoin(s)
    \/ \E s \in AgenticSessionIds, agent_id \in AgentIds : BrowserCall(s, agent_id)
    \/ \E s \in AgenticSessionIds, raises \in BOOLEAN : BrowserEnd(s, raises)
    \/ \E s \in AgenticSessionIds, agent_id \in AgentIds : MailCall(s, agent_id)
    \/ \E s \in AgenticSessionIds : EndConversation(s)
    \/ \E s \in AgenticSessionIds : AgenticCleanup(s)

AgenticEngineSpec == AgenticEngineInit /\ [][AgenticEngineNext]_vars

(***************************************************************************)
(* A translation handed to the engine of its paradigm, as execute_run_agent *)
(* does with the agentConfig of a run (runs.py 205-232).                   *)
(***************************************************************************)
LoadTypes == {"MasterAgent", "ExecutionAgent", "MailAgent", "DataCollectionAgent",
              "RoutingAgent", "Widget"}

TranslateLoadInit ==
    /\ active_runs = <<>>
    /\ run_events = <<>>
    /\ tasks = <<>>
    /\ handlers = <<>>
    /\ http = NoResponse
    /\ streams = [s \in StreamIds |-> IdleStream]
    /\ ServiceInit
    /\ \E p \in {"Agentic", "Sequential"}, ts \in [1..MaxSeqNodes -> LoadTypes],
          es \in SeqEdgeLists :
          tr_call = [pc |-> "called", paradigm |-> p, nodes |-> SeqNodes(ts),
                     edges |-> es, result |-> Raise(""), status |-> 0]

\* JSONFlowAgent(agent_config) or SequentialJSONFlowAgent(agent_config)
LoadTranslated ==
    /\ tr_call.pc = "returned"
    /\ tr_call.result.ok
    /\ IF Lower(tr_call.paradigm) = "agentic"
       THEN AgenticConstruct(1, tr_call.result.value)
       ELSE SeqConstruct(1, tr_call.result.value)

TranslateLoadNext == Translate \/ LoadTranslated

TranslateLoadSpec == TranslateLoadInit /\ [][TranslateLoadNext]_vars

(***************************************************************************)
(* The Agentic engine loaded with configurations of any paradigm: load     *)
(* asks for the paradigm key only, and POST /api/voice/json-flow-rooms     *)
(* hands over any dict.                                                    *)
(***************************************************************************)
AgenticParadigmConfigs ==
    { NoneConfig,
      [paradigm |-> "Agentic",
       subAgents |-> << [type |-> "mail-agent", prompt |-> "report"] >>],
      [paradigm |-> "Sequential"],
      [paradigm |-> "agentic",
       subAgents |-> << [type |-> "mail-agent", prompt |-> "report"] >>] }

AgenticParadigmNext ==
    \/ \E s \in AgenticSessionIds, json_config \in AgenticParadigmConfigs :
          AgenticConstruct(s, json_config)
    \/ \E s \in AgenticSessionIds : AgenticJoin(s)
    \/ \E s \in AgenticSessionIds, agent_id \in AgentIds : BrowserCall(s, agent_id)
    \/ \E s \in AgenticSessionIds, raises \in BOOLEAN : BrowserEnd(s, raises)
    \/ \E s \in AgenticSessionIds, agent_id \in AgentIds : MailCall(s, agent_id)
    \/ \E s \in AgenticSessionIds : EndConversation(s)
    \/ \E s \in AgenticSessionIds : AgenticCleanup(s)

AgenticParadigmSpec == AgenticEngineInit /\ [][AgenticParadigmNext]_vars

(***************************************************************************)
(* The voice API on its own.                                               *)
(***************************************************************************)
VoiceInit == RunsIdle /\ ServiceInit

VoiceNext ==
    \/ \E room \in VoiceRooms, json_config \in VoiceConfigs, created \in BOOLEAN :
          CreateJsonFlowRoom(room, json_config, created)
    \/ \E room \in VoiceRooms, created \in BOOLEAN : CreateProductivityRoom(room, created)
    \/ CreateSequentialFlowRoom
    \/ \E room \in VoiceRooms, pipeline_raises \in BOOLEAN :
          RunJsonFlowAgent(room, pipeline_raises)
    \/ \E room \in VoiceRooms, pipeline_raises \in BOOLEAN :
          RunProductivityAgent(room, pipeline_raises)
    \/ \E room \in VoiceRooms, outcome \in {"returned", "raised", "cancelled"} :
          AgentRunEnds(room, outcome)
    \/ \E room \in VoiceRooms : GetRoomStatus(room)
    \/ \E q \in VoiceRequestIds, room \in VoiceRooms : CleanupRoom(q, room)
    \/ \E q \in VoiceRequestIds : CleanupRoomResume(q)

VoiceSpec == VoiceInit /\ [][VoiceNext]_vars

(***************************************************************************)
(* The rate limiter on its own.                                            *)
(***************************************************************************)
LimiterInit == RunsIdle /\ ServiceInit

LimiterNext ==
    \/ \E client \in Clients, body_status \in MailBodyStatuses :
          SendMailRequest(client, body_status)
    \/ NextWindow

LimiterSpec == LimiterInit /\ [][LimiterNext]_vars

\* POST /api/voice/rooms on its own
VoiceRoomsNext ==
    \/ \E client \in Clients, created \in BOOLEAN : CreateVoiceRoom(client, created)
    \/ NextWindow

VoiceRoomsSpec == LimiterInit /\ [][VoiceRoomsNext]_vars

(***************************************************************************)
(* One request of POST /api/mail, for every request, environment and       *)
(* behaviour of the provider.                                              *)
(***************************************************************************)
MailInit ==
    /\ RunsIdle
    /\ SeqVarsInit /\ AgenticVarsInit /\ VoiceVarsInit /\ LimiterVarsInit
    /\ flows_call = FlowsIdle
    /\ \E client \in BOOLEAN, DEBUG \in DebugValues, AGENTMAIL_INBOX_ID \in InboxIdValues,
          mail_data \in MailRequests, provider \in Providers :
          mail_call = [MailIdle EXCEPT !.pc = "called", !.client = client, !.DEBUG = DEBUG,
                                       !.AGENTMAIL_INBOX_ID = AGENTMAIL_INBOX_ID,
                                       !.mail_data = mail_data, !.provider = provider]

MailNext == SendMail

MailSpec == MailInit /\ [][MailNext]_vars

(***************************************************************************)
(* One request of GET /api/flows/{id} or GET /api/flows, for every answer  *)
(* of the store.                                                           *)
(***************************************************************************)
FlowsInit ==
    /\ RunsIdle
    /\ SeqVarsInit /\ AgenticVarsInit /\ VoiceVarsInit /\ LimiterVarsInit
    /\ mail_call = MailIdle
    /\ \/ \E flow_id \in FlowIds, query \in GetFlowQueries :
             flows_call = [FlowsIdle EXCEPT !.pc = "called", !.endpoint = "get_flow",
                                            !.flow_id = flow_id, !.query = query]
       \/ \E query \in ListFlowsQueries :
             flows_call = [FlowsIdle EXCEPT !.pc = "called", !.endpoint = "list_flows",
                                            !.query = query]

FlowsNext == GetFlow \/ ListFlows

FlowsSpec == FlowsInit /\ [][FlowsNext]_vars

(***************************************************************************)
(* Properties.                                                             *)
(***************************************************************************)
IsHeadless(run) == ~run.voiceEnabled
Finished(run_id) == run_id \in DOMAIN tasks /\ tasks[run_id].pc = "done"
TypesOf(events) == [k \in 1..Len(events) |-> events[k].type]
NodeEventTypes == {"node_started", "node_completed"}

\* C1: a headless run over n >= 1 nodes is created with status starting, its
\* status only ever moves starting -> running -> completed, and with the
\* background task scheduled fairly it eventually is completed.
C1_StatusStep ==
    \A run_id \in RunIds :
        /\ (run_id \notin DOMAIN active_runs /\ run_id \in DOMAIN active_runs'
              /\ IsHeadless(active_runs'[run_id]))
           => active_runs'[run_id].status = "starting"
        /\ (run_id \in DOMAIN active_runs /\ IsHeadless(active_runs[run_id])
              /\ Len(active_runs[run_id].nodes) >= 1)
           => /\ run_id \in DOMAIN active_runs'
              /\ LET old == active_runs[run_id].status
                     new == active_runs'[run_id].status
                 IN \/ new = old
                    \/ old = "starting" /\ new = "running"
                    \/ old = "running" /\ new = "completed"
C2_EventOrder ==
    \A run_id \in DOMAIN active_runs :
        LET run == active_runs[run_id]
            events == run_events[run_id]
            n == Len(run.nodes)
            node_events == SelectSeq(events, LAMBDA e : e.type \in NodeEventTypes)
        IN (IsHeadless(run) /\ run.status = "completed")
           => /\ Len(events) >= 2
              /\ events[1].type = "run_started"
              /\ events[Len(events)].type = "run_completed"
              /\ \A k \in 1..Len(events) :
                    /\ events[k].type = "run_started" => k = 1
                    /\ events[k].type = "run_completed" => k = Len(events)
                    /\ events[k].type = "node_started"
                       => /\ k < Len(events)
                          /\ events[k + 1].type = "node_completed"
                          /\ events[k + 1].nodeId = events[k].nodeId
              /\ Len(node_events) = 2 * n
              /\ \A i \in 1..n :
                    /\ node_events[2 * i - 1].type = "node_started"
                    /\ node_events[2 * i - 1].nodeId = run.nodes[i].id
                    /\ node_events[2 * i].type = "node_completed"
                    /\ node_events[2 * i].nodeId = run.nodes[i].id
              /\ run.events = events
C2_Witness ==
    \E run_id \in DOMAIN active_runs :
        /\ IsHeadless(active_runs[run_id])
        /\ active_runs[run_id].status = "completed"
        /\ Len(active_runs[run_id].nodes) >= 2
        /\ Len(run_events[run_id]) = 2 * Len(active_runs[run_id].nodes) + 2

\* C3: a stream opened after the run recorded its terminal event sends the
\* recorded events and closes: it never goes to sleep to poll for more.
C3_LateStreamCloses ==
    \A s \in StreamIds :
        streams[s].opened_late => streams[s].pc # "sleep"

\* C4: a stream opened before the terminal event is appended closes once it
\* has sent the terminal event, under every interleaving with the background
\* task: the terminal event is its last frame, and it does not go to sleep to
\* poll after it.
C4_EarlyStreamCloses ==
    \A s \in StreamIds :
        LET st == streams[s]
        IN (st.pc # "idle" /\ ~st.opened_late)
           => \A k \in 1..Len(st.frames) :
                 IsTerminal(st.frames[k]) => (k = Len(st.frames) /\ st.pc # "sleep")

\* C5: the frames a run's stream has sent are at every moment a prefix of
\* the run's event list: every event once, in append order.
IsErrorStream(st) == st.frames = <<ErrorFrame>>
C5_FramesArePrefix ==
    \A s \in StreamIds :
        LET st == streams[s]
        IN (st.pc # "idle" /\ ~IsErrorStream(st))
           => /\ st.run_id \in DOMAIN run_events
              /\ Len(st.frames) <= Len(run_events[st.run_id])
              /\ \A k \in 1..Len(st.frames) : st.frames[k] = run_events[st.run_id][k]
C5_Witness ==
    \E s \in StreamIds :
        LET st == streams[s]
        IN /\ st.pc = "closed"
           /\ ~IsErrorStream(st)
           /\ ~st.opened_late
           /\ Len(st.frames) >= 4
           /\ st.frames = run_events[st.run_id]

\* C6: when the background task of a run ends, it ends failed if one of its
\* steps raised and completed otherwise; a failed run has completedAt and a
\* run_failed event, a completed one has completedAt, progress 1.0 and a
\* run_completed event; the run's event list then holds exactly one terminal
\* event, as its last element, and that stays so.
Raised(run_id) ==
    \/ ExecuteStart(run_id, TRUE)
    \/ RunFlowEnds(run_id, TRUE)
TerminalCount(events) == Cardinality({k \in 1..Len(events) : IsTerminal(events[k])})
EndsAs(run, events, status, event_type) ==
    /\ run.status = status
    /\ run.completedAt # Missing
    /\ Len(events) >= 1
    /\ events[Len(events)].type = event_type
    /\ TerminalCount(events) = 1
    /\ run.events = events
C6_EndStep ==
    \A run_id \in RunIds :
        (run_id \in DOMAIN tasks /\ tasks[run_id].pc # "done" /\ tasks'[run_id].pc = "done")
        => IF Raised(run_id)
           THEN EndsAs(active_runs'[run_id], run_events'[run_id], "failed", "run_failed")
           ELSE /\ EndsAs(active_runs'[run_id], run_events'[run_id],
                          "completed", "run_completed")
                /\ active_runs'[run_id].progress = One
C6_Ended ==
    \A run_id \in DOMAIN active_runs :
        LET run == active_runs[run_id]
        IN /\ Finished(run_id)
              => \/ EndsAs(run, run_events[run_id], "failed", "run_failed")
                 \/ EndsAs(run, run_events[run_id], "completed", "run_completed")
           /\ ~Finished(run_id)
              => /\ TerminalCount(run_events[run_id]) = 0
                 /\ run.status \in {"starting", "running"}
C6_TerminalEvent == [][C6_EndStep]_vars /\ []C6_Ended
C6_Witness ==
    \E run_id \in DOMAIN active_runs :
        /\ Finished(run_id)
        /\ active_runs[run_id].status = "failed"
        /\ TypesOf(run_events[run_id])
             = <<"run_started", "agent_initialized", "run_failed">>

\* C7: in a headless run over n nodes node i (from 0) reports progress
\* (i + 0.5) / n when started and (i + 1) / n when completed, so the reported
\* values increase strictly; the stored progress is within [0, 1], and it is
\* 1.0 whenever the status is completed.
C7_Progress ==
    \A run_id \in DOMAIN active_runs :
        LET run == active_runs[run_id]
            n == Len(run.nodes)
            node_events == SelectSeq(run_events[run_id],
                                     LAMBDA e : e.type \in NodeEventTypes)
        IN /\ IsHeadless(run)
              => /\ \A k \in 1..Len(node_events) :
                       LET i == (k - 1) \div 2
                       IN IF node_events[k].type = "node_started"
                          THEN RatEq(node_events[k].progress, <<2 * i + 1, 2 * n>>)
                          ELSE RatEq(node_events[k].progress, <<i + 1, n>>)
                 /\ \A k \in 1..(Len(node_events) - 1) :
                       RatLess(node_events[k].progress, node_events[k + 1].progress)
                 /\ (node_events # <<>>
                       => RatEq(run.progress, node_events[Len(node_events)].progress))
           /\ run.progress # <<>>
              => /\ run.progress[2] > 0
                 /\ RatLeq(<<0, 1>>, run.progress)
                 /\ RatLeq(run.progress, One)
           /\ run.status = "completed"
              => (run.progress # <<>> /\ RatEq(run.progress, One))
C7_Witness ==
    \E run_id \in DOMAIN active_runs :
        /\ IsHeadless(active_runs[run_id])
        /\ Len(active_runs[run_id].nodes) >= 2
        /\ active_runs[run_id].status = "completed"
        /\ Len(SelectSeq(run_events[run_id], LAMBDA e : e.type \in NodeEventTypes)) >= 4

\* C8: a POST /api/runs answered 400 or 500 leaves the run registry and the
\* event registry as they were and schedules no background task.
C8_RejectedStep ==
    (http' # http /\ http'.status \in {400, 500})
    => /\ active_runs' = active_runs
       /\ run_events' = run_events
       /\ tasks' = tasks
C8_Rejection == [][C8_RejectedStep]_vars
C8_Witness ==
    /\ http.status = 500
    /\ http.detail = "Failed to create voice room"
    /\ DOMAIN active_runs = {}
    /\ DOMAIN tasks = {}

HasMaster(nodes) ==
    \E i \in 1..Len(nodes) : nodes[i].type \in {"MasterAgent", "masteragent"}
C10_MasterRequired ==
    (tr_call.pc = "returned"
       /\ tr_call.paradigm \in {"Agentic", "AGENTIC", "agentic"}
       /\ ~HasMaster(tr_call.nodes))
    => /\ ~tr_call.result.ok
       /\ tr_call.result.error = "FlowTranslationError"
       /\ "value" \notin DOMAIN tr_call.result
C10_Witness ==
    /\ tr_call.pc = "returned"
    /\ tr_call.paradigm = "AGENTIC"
    /\ Len(tr_call.nodes) = 2
    /\ ~HasMaster(tr_call.nodes)
    /\ Len(tr_call.edges) >= 1
    /\ ~tr_call.result.ok

\* C11: in agentic translation over an acyclic edge set, subAgents holds
\* exactly one entry for each node of type ExecutionAgent, MailAgent,
\* DataCollectionAgent or RoutingAgent that a directed path of edges, of any
\* length, reaches from the master, and no entry for any other node.  (The
\* entry of node i is known by the prompt "p<i>" it carries over.)
RECURSIVE ReachGrow(_, _, _, _)
ReachGrow(from, reached, edges, k) ==
    IF k = 0 THEN reached
    ELSE ReachGrow(from,
                   reached \cup {edges[i].target :
                                    i \in {j \in 1..Len(edges) :
                                             edges[j].source \in {from} \cup reached}},
                   edges, k - 1)
\* the ids that a path of one or more edges reaches from the id `from`
ReachableFrom(from, edges) == ReachGrow(from, {}, edges, Len(edges))
Acyclic(edges) ==
    \A i \in 1..Len(edges) : edges[i].source \notin ReachableFrom(edges[i].source, edges)
SubAgentTypes == {"ExecutionAgent", "MailAgent", "DataCollectionAgent", "RoutingAgent"}
ExpectedSubAgentNodes(nodes, edges) ==
    {i \in 1..Len(nodes) :
        /\ nodes[i].type \in SubAgentTypes
        /\ nodes[i].id \in ReachableFrom(nodes[MasterIndex(nodes)].id, edges)}
Incoming(id, edges) == {j \in 1..Len(edges) : edges[j].target = id}
TreeShaped(nodes, edges) ==
    /\ nodes # <<>>
    /\ \A j \in 1..Len(edges) :
          edges[j].source \in NodeIdsOf(nodes) /\ edges[j].target \in NodeIdsOf(nodes)
    /\ \A i \in 1..Len(nodes) : Cardinality(Incoming(nodes[i].id, edges)) <= 1
    /\ Cardinality({i \in 1..Len(nodes) : Incoming(nodes[i].id, edges) = {}}) = 1
    /\ Acyclic(edges)
\* the identifier that the position of a node in the tree gives it
RECURSIVE PositionIdentifier(_, _)
PositionIdentifier(id, edges) ==
    IF Incoming(id, edges) = {} THEN "1"
    ELSE LET j == CHOOSE k \in Incoming(id, edges) : TRUE
             parent == edges[j].source
             rank == Cardinality({k \in 1..j : edges[k].source = parent})
         IN PositionIdentifier(parent, edges) \o "_" \o ToString(rank)
\* the agents of a compiled tree as <<prompt, identifier>>, parents first
RECURSIVE FlattenAgents(_)
RECURSIVE FlattenAgentList(_)
FlattenAgents(agent) ==
    <<<<agent.prompt, agent.identifier>>>>
    \o (IF "children" \in DOMAIN agent THEN FlattenAgentList(agent.children) ELSE <<>>)
FlattenAgentList(agents) ==
    IF agents = <<>> THEN <<>>
    ELSE FlattenAgents(Head(agents)) \o FlattenAgentList(Tail(agents))
IsTreeTranslation ==
    /\ tr_call.pc \in {"returned", "again"}
    /\ Lower(tr_call.paradigm) = "sequential"
    /\ TreeShaped(tr_call.nodes, tr_call.edges)
C12_TreeIdentifiers ==
    IsTreeTranslation
    => /\ tr_call.result.ok
       /\ LET agents == FlattenAgents(tr_call.result.value.startingAgent)
              nodes == tr_call.nodes
          IN /\ Range(agents) = { <<nodes[i].prompt,
                                      PositionIdentifier(nodes[i].id, tr_call.edges)>> :
                                    i \in 1..Len(nodes) }
             /\ Len(agents) = Len(nodes)
             /\ \A a, b \in 1..Len(agents) : a # b => agents[a][2] # agents[b][2]
       /\ tr_call.pc = "again" => tr_call.result = tr_call.first
\* a root with two children, translated twice
C12_Witness ==
    /\ IsTreeTranslation
    /\ tr_call.pc = "again"
    /\ tr_call.result.ok
    /\ {a[2] : a \in Range(FlattenAgents(tr_call.result.value.startingAgent))}
          = {"1", "1_1", "1_2"}

\* C13: for every input (any paradigm value, nodes without id, edges whose
\* source or target names no node) the translation returns a configuration
\* or raises FlowTranslationError and no other kind of error, and POST
\* /api/runs answers every such failure with status 400, never 500.
C13_SingleErrorKind ==
    tr_call.pc = "returned"
    => IF tr_call.result.ok
       THEN tr_call.status = 0 /\ tr_call.result.value.paradigm \in {"Agentic", "sequential"}
       ELSE tr_call.result.error = "FlowTranslationError" /\ tr_call.status = 400
\* an edge whose source names no node: the failure starts as a KeyError
C13_Witness ==
    /\ tr_call.pc = "returned"
    /\ tr_call.status = 400
    /\ tr_call.nodes # <<>>
    /\ Missing \notin NodeIdsOf(tr_call.nodes)
    /\ \E j \in 1..Len(tr_call.edges) : tr_call.edges[j].source = GhostId
    /\ TranslateBody(tr_call.paradigm, tr_call.nodes, tr_call.edges).error = "KeyError"

\* C14: after every recordData call on a dataCollector node that returns,
\* all_data_collected is true iff every declared data point of the current
\* agent has a non-empty stored value; recording a name again overwrites its
\* one stored value and touches no other; and when all was collected before
\* the call, recording an already collected point again with a non-empty
\* value leaves all_data_collected true.
DeclaredNames(fd) ==
    LET agent == fd.flow_tree[fd.current_agent_id]
    IN IF "dataPoints" \in DOMAIN agent
       THEN {agent.dataPoints[i].name : i \in 1..Len(agent.dataPoints)}
       ELSE {}
StoredNames(fd) ==
    IF fd.current_agent_id \in DOMAIN fd.collected_data
    THEN DOMAIN fd.collected_data[fd.current_agent_id]
    ELSE {}
StoredValue(fd, name) ==
    IF name \in StoredNames(fd) THEN fd.collected_data[fd.current_agent_id][name] ELSE ""
Complete(fd) == \A name \in DeclaredNames(fd) : StoredValue(fd, name) # ""
C14_RecordStep ==
    \A s \in SeqSessionIds, data_name \in DataNames, data_value \in DataValues :
        (RecordData(s, data_name, data_value) /\ seq_result'.result.ok)
        => LET result == seq_result'.result.value
           IN /\ seq_sessions[s].node.kind = "dataCollector"
              /\ result.all_data_collected = Complete(flow_data')
              /\ StoredNames(flow_data') = StoredNames(flow_data) \cup {data_name}
              /\ \A name \in StoredNames(flow_data') :
                    StoredValue(flow_data', name)
                      = IF name = data_name THEN data_value
                        ELSE StoredValue(flow_data, name)
              /\ result.data_collected = flow_data'.collected_data[flow_data'.current_agent_id]
              /\ (Complete(flow_data)
                    /\ StoredValue(flow_data, data_name) # ""
                    /\ data_value # "")
                 => result.all_data_collected
C14_RecordData == [][C14_RecordStep]_vars
\* both declared points of the data collector 1_1 are recorded
C14_Witness ==
    /\ seq_result.fn = "recordData"
    /\ seq_result.result.ok
    /\ seq_result.result.value.agent_id = "1_1"
    /\ seq_result.result.value.all_data_collected
    /\ DOMAIN seq_result.result.value.data_collected = {"a", "b"}
    /\ seq_result.next_node.functions = {"recordData", "routeToNode"}

\* C15: routeToNode with an identifier that is no key of the flattened tree
\* returns status error and no next node and leaves current_agent_id, the
\* conversation-state mirror and the active node as they were; with an
\* identifier of the tree it sets both to exactly that identifier and
\* returns the node of the target agent: a router, dataCollector or
\* emailAgent node according to the target's type.
C15_RouteStep ==
    \A s \in SeqSessionIds, node_identifier \in RouteIdentifiers :
        RouteToNode(s, node_identifier)
        => LET result == seq_result'.result.value
               next_node == seq_result'.next_node
           IN IF node_identifier \notin DOMAIN flow_data.flow_tree
              THEN /\ result.status = "error"
                   /\ next_node = NoNode
                   /\ flow_data'.current_agent_id = flow_data.current_agent_id
                   /\ flow_data'.conversation_state = flow_data.conversation_state
                   /\ seq_sessions'[s] = seq_sessions[s]
              ELSE /\ result.status = "success"
                   /\ flow_data'.current_agent_id = node_identifier
                   /\ flow_data'.conversation_state.current_agent_id = node_identifier
                   /\ LET type == flow_data.flow_tree[node_identifier].type
                      IN type \in {"router", "dataCollector", "emailAgent"}
                         => /\ next_node.kind = type
                            /\ next_node.agent_id = node_identifier
                            /\ seq_sessions'[s].node = next_node
C15_RouteToNode == [][C15_RouteStep]_vars
\* a routing refused while the session is past its first node
C15_Witness ==
    /\ seq_result.fn = "routeToNode"
    /\ seq_result.args = <<"9">>
    /\ seq_result.result.value.status = "error"
    /\ seq_result.next_node = NoNode
    /\ flow_data.current_agent_id = "1_1"
    /\ seq_sessions[seq_result.session].node.kind = "dataCollector"

\* C16: browser_function and mail_function called with an index outside
\* [0, number of sub-agents) return an error result and no next node; called
\* with an index in range whose sub-agent is of another type they return an
\* error result that carries the sub-agent's type, and no next node; in both
\* cases the flow manager's keyed state gets no entry.
IsRefusal(result) ==
    /\ "prompt" \in DOMAIN result
    /\ "status" \in DOMAIN result => result.status = "error"
    /\ "raised" \notin DOMAIN result
C16_RefusedCall(s, fn, agent_id, type) ==
    LET sub_agents == sub_agent_lists[json_flow_data.sub_agents]
        in_range == agent_id >= 0 /\ agent_id < Len(sub_agents)
        result == agentic_result'.result
    IN (~in_range \/ sub_agents[agent_id + 1].type # type)
       => /\ agentic_result'.fn = fn
          /\ agentic_result'.agent_id = agent_id
          /\ IsRefusal(result)
          /\ agentic_result'.next_node = NoNode
          /\ agentic_sessions' = agentic_sessions
          /\ IF in_range
             THEN /\ result.status = "error"
                  /\ result.agent_type = sub_agents[agent_id + 1].type
             ELSE result.prompt = "Invalid agent ID"
C16_RefusalStep ==
    \A s \in AgenticSessionIds, agent_id \in AgentIds :
        /\ BrowserCall(s, agent_id)
           => C16_RefusedCall(s, "browser_function", agent_id, "browser-agent")
        /\ MailCall(s, agent_id)
           => C16_RefusedCall(s, "mail_function", agent_id, "mail-agent")
C16_Refusals == [][C16_RefusalStep]_vars
\* mail_function refused for a browser agent, in a session that had run one
C16_Witness ==
    /\ agentic_result.fn = "mail_function"
    /\ agentic_result.agent_id = 0
    /\ agentic_result.result.status = "error"
    /\ agentic_result.result.agent_type = "browser-agent"
    /\ agentic_result.next_node = NoNode
    /\ \E s \in AgenticSessionIds :
          /\ agentic_sessions[s].pc = "active"
          /\ DOMAIN agentic_sessions[s].state = {"browser_agent_0_result"}

\* C17: as long as an Agentic session lives, every index of its own
\* configuration's sub-agent list resolves, in browser_function and
\* mail_function, to the sub-agent at that index of its own configuration,
\* whatever other sessions start or are cleaned up meanwhile.
C17_OwnSubAgents ==
    \A s \in AgenticSessionIds :
        agentic_sessions[s].pc \in {"ready", "active", "browsing"}
        => LET own == agentic_sessions[s].own
               sub_agents == sub_agent_lists[json_flow_data.sub_agents]
           IN \A i \in 1..Len(own) : i <= Len(sub_agents) /\ sub_agents[i] = own[i]

\* C18: DELETE /api/voice/rooms/{room} never fails because of the state of
\* the registries: whatever the background task of the room does meanwhile,
\* the call answers cleaned_up when it found the room registered and
\* not_found otherwise.
C18_CleanupNeverFails ==
    \A q \in VoiceRequestIds :
        voice_requests[q].pc = "done"
        => /\ voice_requests[q].status_code = 200
           /\ voice_requests[q].status =
                 IF voice_requests[q].found THEN "cleaned_up" ELSE "not_found"

\* C19: once the background task of a room has failed, and as long as no
\* DELETE has found the room, GET /api/voice/rooms/{room}/status reports
\* the status error.
C19_FailureRecorded ==
    \A room \in VoiceRooms :
        /\ voice_tasks[room].pc = "failed"
        /\ \A q \in VoiceRequestIds :
              ~(voice_requests[q].room = room /\ voice_requests[q].found)
        => get_room_status(room).agent_status = "error"

\* C20: a client that has sent more requests in the window than the limit
\* of POST /api/mail has got at least one 429, a client that has sent at
\* most that many has got none, and every 429 carries a Retry-After header.
C20_RateLimit ==
    /\ \A client \in Clients :
          LET tally == limiter_tally[client]
          IN /\ tally.sent > rate_limit_mail_send => tally.rate_limited >= 1
             /\ tally.sent <= rate_limit_mail_send => tally.rate_limited = 0
    /\ limiter_http.status_code = 429 => "Retry-After" \in DOMAIN limiter_http.headers
\* in the second window one client is refused on its request beyond the
\* limit while the other, within the limit, has been served throughout
C20_Witness ==
    /\ limiter_clock = 2
    /\ limiter_http.status_code = 429
    /\ limiter_http.headers["Retry-After"] = "60"
    /\ \E client \in Clients, other \in Clients :
          /\ client # other
          /\ limiter_http.client = client
          /\ limiter_tally[client].sent = rate_limit_mail_send + 1
          /\ limiter_tally[client].rate_limited = 1
          /\ limiter_tally[other].sent = rate_limit_mail_send
          /\ limiter_tally[other].rate_limited = 0

\* C21: a client that has sent more requests to POST /api/voice/rooms in the
\* window than the voice-create limit has got at least one 429.
C21_VoiceRoomsLimited ==
    \A client \in Clients :
        limiter_tally[client].sent > rate_limit_voice_create
        => limiter_tally[client].rate_limited >= 1

\* C22: with a provider client, a request of POST /api/mail that has neither
\* html nor text content is answered 400 with the detail "Either html or
\* text content must be provided", and no operation of the provider is
\* called.
C22_NoContentRejected ==
    (/\ mail_call.pc = "answered"
     /\ mail_call.client
     /\ ~Truthy(mail_call.mail_data.html)
     /\ ~Truthy(mail_call.mail_data.text))
    => /\ mail_call.response.status_code = 400
       /\ mail_call.response.detail = "Either html or text content must be provided"
       /\ mail_call.calls = <<>>

C22_Witness ==
    /\ mail_call.pc = "answered"
    /\ mail_call.client
    /\ mail_call.mail_data.html = ""
    /\ mail_call.mail_data.text = Missing
    /\ mail_call.response.status_code = 400

\* C23: when a request carries both html and text, the provider's send is
\* called with the html only: the text is never handed over.
C23_HtmlOnly ==
    (/\ mail_call.pc = "answered"
     /\ mail_call.client
     /\ Truthy(mail_call.mail_data.html)
     /\ Truthy(mail_call.mail_data.text))
    => \A i \in DOMAIN mail_call.calls :
          mail_call.calls[i].op = "inboxes.messages.send"
          => /\ mail_call.calls[i].html = mail_call.mail_data.html
             /\ mail_call.calls[i].text = Missing

\* C24: without a provider client, POST /api/mail is answered 200 with status
\* "mocked" and a message id that begins with "mock-" when DEBUG is "true",
\* and 503 otherwise; the provider is never called and the content check is
\* not made, so the answer does not depend on html and text.
C24_NoClient ==
    (mail_call.pc = "answered" /\ ~mail_call.client)
    => /\ mail_call.calls = <<>>
       /\ mail_call.DEBUG = "true"
          => /\ mail_call.response.status_code = 200
             /\ mail_call.response.status = "mocked"
             /\ mail_call.response.messageId.prefix = "mock-"
       /\ mail_call.DEBUG # "true" => mail_call.response.status_code = 503

C24_Witness ==
    /\ mail_call.pc = "answered"
    /\ ~mail_call.client
    /\ mail_call.DEBUG = "true"
    /\ ~Truthy(mail_call.mail_data.html)
    /\ ~Truthy(mail_call.mail_data.text)
    /\ mail_call.response.status = "mocked"

\* C25: GET /api/flows answers the empty list, never null, when the store
\* yields no value; GET /api/flows/{id} answers 404 when the store yields no
\* value; when the store raises, either answers 500, never 404 and never an
\* empty list.
C25_FlowsAnswers ==
    flows_call.pc = "answered"
    => /\ flows_call.query.raises => flows_call.response.status_code = 500
       /\ (/\ flows_call.endpoint = "list_flows"
           /\ ~flows_call.query.raises
           /\ flows_call.query.value = PyNone)
          => /\ flows_call.response.status_code = 200
             /\ flows_call.response.body = PyList(<<>>)
       /\ (flows_call.endpoint = "list_flows" /\ flows_call.response.status_code = 200)
          => flows_call.response.body.list
       /\ (/\ flows_call.endpoint = "get_flow"
           /\ ~flows_call.query.raises
           /\ flows_call.query.value = PyNone)
          => flows_call.response.status_code = 404

C25_Witness ==
    /\ flows_call.pc = "answered"
    /\ flows_call.endpoint = "get_flow"
    /\ flows_call.query.raises
    /\ flows_call.response.status_code = 500

\* C26: the subAgents list of an agentic translation holds the sub-agents of
\* the connected execution nodes in the order in which the walk from the
\* master discovered these nodes.
C26_DiscoveryOrder ==
    (tr_call.pc = "returned" /\ tr_call.result.ok /\ MasterIndex(tr_call.nodes) # 0)
    => LET master_id == tr_call.nodes[MasterIndex(tr_call.nodes)].id
           order == DiscoveryOrder(master_id, tr_call.edges)
           node_of(id) == CHOOSE n \in Range(tr_call.nodes) : n.id = id
           discovered == [i \in 1..Len(order) |-> node_of(order[i])]
           execution_nodes ==
               FilterSeq(discovered, {n \in Range(discovered) : NodeType(n) \in ExecutionTypes})
       IN tr_call.result.value.subAgents
            = [i \in 1..Len(execution_nodes) |-> _convert_node_to_sub_agent(execution_nodes[i])]

\* a cycle of edges lies on a path that starts at id
CycleReachable(id, edges) ==
    \E x \in {id} \cup ReachableFrom(id, edges) : x \in ReachableFrom(x, edges)

\* C27: a translation of a flow whose edges hold no cycle never runs into the
\* recursion limit; when a cycle of edges can be reached from the master
\* (agentic) or from the chosen root (sequential), the walk has no guard and
\* the call returns no configuration.
C27_CyclesNeverTranslate ==
    (tr_call.pc = "returned" /\ tr_call.paradigm # Missing)
    => LET nodes == tr_call.nodes
           edges == tr_call.edges
           body == TranslateBody(tr_call.paradigm, nodes, edges)
           m == MasterIndex(nodes)
           found == _find_root_node(edges, [i \in 1..Len(nodes) |-> nodes[i].id])
           root == IF found # Missing THEN found
                   ELSE IF nodes # <<>> THEN nodes[1].id ELSE Missing
       IN /\ Acyclic(edges) => (body.ok \/ body.error # "RecursionError")
          /\ (/\ Lower(tr_call.paradigm) = "agentic"
              /\ m # 0
              /\ CycleReachable(nodes[m].id, edges))
             => ~tr_call.result.ok
          /\ (/\ Lower(tr_call.paradigm) = "sequential"
              /\ root # Missing
              /\ CycleReachable(root, edges))
             => ~tr_call.result.ok

C27_Witness ==
    /\ tr_call.pc = "returned"
    /\ tr_call.paradigm = "Agentic"
    /\ MasterIndex(tr_call.nodes) # 0
    /\ Len(tr_call.nodes) = 2
    /\ \A i \in 1..2 : tr_call.nodes[i].id # Missing
    /\ CycleReachable(tr_call.nodes[MasterIndex(tr_call.nodes)].id, tr_call.edges)
    /\ ~tr_call.result.ok

\* C28: whenever the Sequential engine renders the dataCollector node of an
\* agent, the node offers recordData, and it offers routeToNode exactly when
\* the agent has at least one child and every data point the agent declares
\* has a non-empty value among the data collected for the agent at that time.
C28_Rendered(node, fd) ==
    node.kind = "dataCollector"
    => LET agent == fd.flow_tree[node.agent_id]
           collected == IF node.agent_id \in DOMAIN fd.collected_data
                        THEN fd.collected_data[node.agent_id] ELSE <<>>
           points == IF "dataPoints" \in DOMAIN agent THEN agent.dataPoints ELSE <<>>
           has_child == "children" \in DOMAIN agent /\ Len(agent.children) >= 1
           complete == \A i \in 1..Len(points) :
                          /\ points[i].name \in DOMAIN collected
                          /\ collected[points[i].name] # ""
       IN /\ "recordData" \in node.functions
          /\ "routeToNode" \in node.functions <=> (has_child /\ complete)
C28_RenderStep ==
    /\ \A s \in SeqSessionIds :
          SeqJoin(s) => C28_Rendered(seq_sessions'[s].node, flow_data')
    /\ \A s \in SeqSessionIds, node_identifier \in RouteIdentifiers :
          RouteToNode(s, node_identifier) => C28_Rendered(seq_result'.next_node, flow_data')
    /\ \A s \in SeqSessionIds, data_name \in DataNames, data_value \in DataValues :
          RecordData(s, data_name, data_value)
          => C28_Rendered(seq_result'.next_node, flow_data')
C28_DataCollectorFunctions == [][C28_RenderStep]_vars
\* a data collector without children rendered with its only point recorded
C28_Witness ==
    /\ seq_result.fn = "recordData"
    /\ seq_result.args = <<"a", "v">>
    /\ seq_result.next_node.kind = "dataCollector"
    /\ seq_result.next_node.functions = {"recordData"}
    /\ "children" \notin DOMAIN flow_data.flow_tree[seq_result.next_node.agent_id]
    /\ seq_result.result.ok
    /\ seq_result.result.value.all_data_collected

\* C29: after a load of the Sequential engine that passed validation,
\* whatever the session state was, the keys of flow_tree are exactly the
\* identifiers of the agents of the loaded tree, current_agent_id and its
\* mirror in conversation_state are "1" and collected_data is empty; a load
\* that failed validation leaves the session state as it was.
RECURSIVE AgentIdentifiers(_)
AgentIdentifiers(agent) ==
    {agent.identifier}
    \cup (IF "children" \in DOMAIN agent
          THEN UNION {AgentIdentifiers(agent.children[i]) : i \in 1..Len(agent.children)}
          ELSE {})
RECURSIVE AgentCount(_, _)
AgentCount(agents, i) ==
    IF i > Len(agents) THEN 0
    ELSE 1 + (IF "children" \in DOMAIN agents[i] THEN AgentCount(agents[i].children, 1) ELSE 0)
           + AgentCount(agents, i + 1)
C29_LoadStep ==
    \A s \in SeqSessionIds, config \in SeqConfigs :
        SeqConstruct(s, config)
        => IF seq_result'.result.ok
           THEN /\ DOMAIN flow_data'.flow_tree
                     = AgentIdentifiers(flow_data'.current_config.startingAgent)
                /\ Cardinality(DOMAIN flow_data'.flow_tree)
                     = AgentCount(<<config.startingAgent>>, 1)
                /\ flow_data'.current_agent_id = "1"
                /\ flow_data'.conversation_state.current_agent_id = "1"
                /\ flow_data'.collected_data = <<>>
           ELSE flow_data' = flow_data
C29_LoadResets == [][C29_LoadStep]_vars
\* a second engine loaded a one-agent tree while the first one stood at the
\* data collector 1_1 of the default tree
C29_Witness ==
    /\ seq_result.fn = "load_configuration"
    /\ seq_result.result.ok
    /\ DOMAIN flow_data.flow_tree = {"1"}
    /\ flow_data.current_agent_id = "1"
    /\ flow_data.collected_data = <<>>
    /\ \E s \in SeqSessionIds :
          /\ seq_sessions[s].pc = "active"
          /\ seq_sessions[s].node.agent_id = "1_1"
          /\ "routeToNode" \in seq_sessions[s].node.functions

\* C30: in the Agentic engine, after every call of browser_function or
\* mail_function, accepted or refused, the active node is the master node;
\* the end node is entered through end_conversation only; and once the end
\* node is active no function can be called.
C30_Step ==
    \A s \in AgenticSessionIds :
        /\ \A agent_id \in AgentIds :
              (BrowserCall(s, agent_id) \/ MailCall(s, agent_id))
              => agentic_sessions'[s].node = MasterNode
        /\ \A raises \in BOOLEAN :
              BrowserEnd(s, raises) => agentic_sessions'[s].node = MasterNode
        /\ (agentic_sessions[s].node.kind # "end" /\ agentic_sessions'[s].node.kind = "end")
           => /\ EndConversation(s)
              /\ agentic_result'.fn = "end_conversation"
        /\ agentic_sessions[s].node.kind = "end"
           => /\ agentic_sessions[s].node.functions = {}
              /\ ~EndConversation(s)
              /\ \A agent_id \in AgentIds : ~BrowserCall(s, agent_id) /\ ~MailCall(s, agent_id)
              /\ \A raises \in BOOLEAN : ~BrowserEnd(s, raises)
C30_MasterUntilEnd == [][C30_Step]_vars
\* a session that ended after an accepted call, next to one that is still at
\* the master node after its last call was refused
C30_Witness ==
    /\ \E s \in AgenticSessionIds :
          /\ agentic_sessions[s].node = AgenticEndNode
          /\ agentic_sessions[s].state # <<>>
    /\ \E s \in AgenticSessionIds :
          /\ agentic_sessions[s].pc = "active"
          /\ agentic_sessions[s].node = MasterNode
    /\ agentic_result.fn \in {"browser_function", "mail_function"}
    /\ "status" \in DOMAIN agentic_result.result
    /\ agentic_result.result.status = "error"

\* C31: a load of the Agentic engine that raises a validation error (no
\* paradigm, or a sub-agent without type or prompt or of an invalid type)
\* leaves current_config, sub_agents and paradigm of the shared session
\* state as they were before the call.
C31_LoadStep ==
    \A s \in AgenticSessionIds, json_config \in AgenticConfigs :
        (AgenticConstruct(s, json_config) /\ ~agentic_result'.result.loaded)
        => /\ json_flow_data'.current_config = json_flow_data.current_config
           /\ json_flow_data'.sub_agents = json_flow_data.sub_agents
           /\ json_flow_data'.paradigm = json_flow_data.paradigm
           /\ SubAgents(Shared(json_flow_data', sub_agent_lists')) = SubAgents(SharedNow)
C31_FailedLoadKeepsState == [][C31_LoadStep]_vars

\* C32: cleanup of the Agentic engine resets the session state without
\* modifying a list of sub-agents, neither that of the default configuration
\* nor that of the configuration that had been loaded; so an engine
\* constructed without configuration, after any loads and cleanups, sees the
\* two default sub-agents.
C32_CleanupStep ==
    \A s \in AgenticSessionIds :
        /\ AgenticCleanup(s) => sub_agent_lists' = sub_agent_lists
        /\ AgenticConstruct(s, NoneConfig)
           => SubAgents(Shared(json_flow_data', sub_agent_lists')) = DEFAULT_SUB_AGENTS
C32_CleanupKeepsConfigurations == [][C32_CleanupStep]_vars

\* C33: whenever the participant-joined hook of an Agentic engine fires, the
\* paradigm of the session state is exactly "Agentic" and the flow is
\* initialized at the master node, for every configuration that load
\* accepted.
C33_JoinStep ==
    \A s \in AgenticSessionIds :
        AgenticJoin(s)
        => /\ json_flow_data.paradigm = "Agentic"
           /\ agentic_sessions'[s].pc = "active"
           /\ agentic_sessions'[s].node = MasterNode
C33_AlwaysAgentic == [][C33_JoinStep]_vars

\* C37: after every load of the Agentic engine that succeeded, sub_agents
\* is the subAgents list of the loaded configuration, and is empty when the
\* configuration has no subAgents key, so that no sub-agent of a
\* configuration loaded earlier can be addressed.
C37_LoadStep ==
    \A s \in AgenticSessionIds, json_config \in AgenticConfigs :
        (AgenticConstruct(s, json_config) /\ agentic_result'.result.loaded)
        => SubAgents(Shared(json_flow_data', sub_agent_lists'))
             = IF json_config = NoneConfig THEN sub_agent_lists'[DefaultList]
               ELSE IF "subAgents" \in DOMAIN json_config THEN json_config.subAgents
               ELSE <<>>
C37_LoadedSubAgents == [][C37_LoadStep]_vars

\* C34: the session state of the Sequential engine is one record shared by
\* all instances: while another Sequential session is active, constructing
\* an engine resets current_agent_id to "1", empties collected_data and
\* replaces flow_tree by the tree of the new configuration, and cleaning an
\* engine up resets current_agent_id to "1" and empties collected_data and
\* flow_tree.
C34_SharedStep ==
    \A s \in SeqSessionIds :
        (\E other \in SeqSessionIds \ {s} : seq_sessions[other].pc = "active")
        => /\ \A config \in SeqConfigs :
                 (SeqConstruct(s, config) /\ seq_result'.result.ok)
                 => /\ flow_data'.current_agent_id = "1"
                    /\ flow_data'.collected_data = <<>>
                    /\ flow_data'.flow_tree
                         = build_agent_lookup(add_identifiers_to_json(config).startingAgent,
                                              <<>>)
           /\ SeqCleanup(s)
              => /\ flow_data'.current_agent_id = "1"
                 /\ flow_data'.collected_data = <<>>
                 /\ flow_data'.flow_tree = <<>>
C34_SharedSessionState == [][C34_SharedStep]_vars
\* an active session that had moved to the data collector 1_1 and recorded a
\* value there, after another engine was cleaned up
C34_Witness ==
    /\ flow_data.flow_tree = <<>>
    /\ flow_data.collected_data = <<>>
    /\ flow_data.current_agent_id = "1"
    /\ \E s \in SeqSessionIds :
          /\ seq_sessions[s].pc = "active"
          /\ seq_sessions[s].node.agent_id = "1_1"
          /\ seq_result.fn = "recordData"
          /\ seq_result.session = s
          /\ seq_result.result.ok
    /\ \E s \in SeqSessionIds : seq_sessions[s].pc = "none"

\* C35: in every reachable state the status of each run is one of starting,
\* running, completed, failed; completedAt is present exactly when the status
\* is completed or failed; a terminal event is the last event of its run; and
\* the event list of the event registry equals that of the run record.  In
\* every step a completed or failed run keeps its status, and a run whose
\* list holds a terminal event gets no further event.
C35_RunsWellFormed ==
    /\ DOMAIN run_events = DOMAIN active_runs
    /\ \A run_id \in DOMAIN active_runs :
          LET run == active_runs[run_id]
              events == run_events[run_id]
          IN /\ run.status \in {"starting", "running", "completed", "failed"}
             /\ run.completedAt # Missing <=> run.status \in {"completed", "failed"}
             /\ \A k \in 1..Len(events) : IsTerminal(events[k]) => k = Len(events)
             /\ run.events = events
C35_RunStep ==
    \A run_id \in DOMAIN active_runs :
        /\ run_id \in DOMAIN active_runs'
        /\ active_runs[run_id].status \in {"completed", "failed"}
           => active_runs'[run_id].status = active_runs[run_id].status
        /\ (\E k \in 1..Len(run_events[run_id]) : IsTerminal(run_events[run_id][k]))
           => run_events'[run_id] = run_events[run_id]
C36_LoadStep ==
    LoadTranslated
    => LET config == tr_call.result.value
       IN IF Lower(tr_call.paradigm) = "agentic"
          THEN /\ agentic_result'.result.loaded
               /\ config.paradigm = "Agentic"
               /\ json_flow_data'.paradigm = "Agentic"
               /\ \A i \in 1..Len(config.subAgents) :
                     /\ config.subAgents[i].type \in {"browser-agent", "mail-agent"}
                     /\ "prompt" \in DOMAIN config.subAgents[i]
               /\ SubAgents(Shared(json_flow_data', sub_agent_lists')) = config.subAgents
          ELSE /\ seq_result'.result.ok
               /\ config.paradigm = "sequential"
               /\ "startingAgent" \in DOMAIN config
               /\ flow_data'.current_config = config
               /\ \A id \in DOMAIN flow_data'.flow_tree :
                     flow_data'.flow_tree[id].identifier = id
C36_TranslationsLoad == [][C36_LoadStep]_vars
\* a sequential translation with two children below the root, loaded
C36_Witness ==
    /\ tr_call.pc = "returned"
    /\ tr_call.paradigm = "Sequential"
    /\ seq_sessions[1].pc = "ready"
    /\ DOMAIN flow_data.flow_tree = {"1", "1_1", "1_2"}
    /\ flow_data.current_config = tr_call.result.value

\* types of agent that route_to_node and create_starting_node recognize
RecognizedTypes == {"dataCollector", "router", "emailAgent"}

\* session s enters the end node in this step
EntersEnd(s) ==
    /\ seq_sessions'[s].pc = "active"
    /\ seq_sessions'[s].node.kind = "end"
    /\ ~(seq_sessions[s].pc = "active" /\ seq_sessions[s].node.kind = "end")

\* the end node is entered through sendEmail or by routing to a node of a
\* type that is not recognized
C38_EndStep ==
    \A s \in SeqSessionIds :
        EntersEnd(s)
        => \/ SendEmail(s)
           \/ \E node_identifier \in DOMAIN flow_data.flow_tree :
                 /\ RouteToNode(s, node_identifier)
                 /\ flow_data.flow_tree[node_identifier].type \notin RecognizedTypes

\* session s is at the node of a dataCollector of the tree that has no children
AtChildlessCollector(s) ==
    /\ seq_sessions[s].pc = "active"
    /\ seq_sessions[s].node.kind = "dataCollector"
    /\ flow_data.current_agent_id = seq_sessions[s].node.agent_id
    /\ seq_sessions[s].node.agent_id \in DOMAIN flow_data.flow_tree
    /\ LET agent == flow_data.flow_tree[seq_sessions[s].node.agent_id]
       IN agent.type = "dataCollector" /\ AgentChildren(agent) = <<>>

\* a function call of session s
SeqFunctionCall(s) ==
    \/ \E node_identifier \in RouteIdentifiers : RouteToNode(s, node_identifier)
    \/ \E data_name \in DataNames, data_value \in DataValues :
          RecordData(s, data_name, data_value)
    \/ SendEmail(s)

\* a dataCollector without children offers recordData only, and no function
\* call leaves it
C38_CollectorStep ==
    \A s \in SeqSessionIds :
        AtChildlessCollector(s)
        => LET agent == flow_data.flow_tree[seq_sessions[s].node.agent_id]
           IN /\ create_data_collector_node(flow_data, agent).functions = {"recordData"}
              /\ SeqFunctionCall(s)
                 => /\ seq_sessions'[s].node.kind = "dataCollector"
                    /\ seq_sessions'[s].node.agent_id = seq_sessions[s].node.agent_id

\* with a tree that has no emailAgent node, no session enters the end node
C38_NoEmailStep ==
    \A s \in SeqSessionIds :
        (\A id \in DOMAIN flow_data.flow_tree : flow_data.flow_tree[id].type # "emailAgent")
        => ~EntersEnd(s)

\* C38: in the Sequential engine the end node is entered only through
\* sendEmail or by routing to a node of an unrecognized type; a dataCollector
\* without children offers recordData only, so that no sequence of function
\* calls leaves it; and a session whose tree has no emailAgent node never
\* reaches the end node.
C38_Step == C38_EndStep /\ C38_CollectorStep /\ C38_NoEmailStep
C38_EndOnlyAfterEmail == [][C38_Step]_vars

\* C39: routeToNode succeeds for any identifier that is a key of the
\* flattened tree, whatever the current agent is: a target that is no child
\* of the current agent (an ancestor, a sibling, the current agent itself)
\* is routed to as well, and current_agent_id becomes the target.
C39_RouteStep ==
    \A s \in SeqSessionIds, node_identifier \in RouteIdentifiers :
        (RouteToNode(s, node_identifier) /\ node_identifier \in DOMAIN flow_data.flow_tree)
        => /\ seq_result'.result.value.status = "success"
           /\ seq_result'.result.value.routed_to = node_identifier
           /\ seq_result'.result.value.current_agent_id = node_identifier
           /\ flow_data'.current_agent_id = node_identifier
           /\ seq_result'.next_node = NodeOfAgent(flow_data', flow_data.flow_tree[node_identifier])
           /\ seq_sessions'[s].node = seq_result'.next_node
C39_AnyKeyRoutes == [][C39_RouteStep]_vars
\* a session that collected data at 1_1 and was routed back to the root
C39_Witness ==
    /\ seq_result.fn = "routeToNode"
    /\ seq_result.args = <<"1">>
    /\ seq_result.result.value.status = "success"
    /\ "1_1" \in DOMAIN flow_data.collected_data
    /\ flow_data.current_agent_id = "1"
    /\ seq_sessions[seq_result.session].node = create_router_node(flow_data.flow_tree["1"])
    /\ \A s \in SeqSessionIds \ {seq_result.session} : seq_sessions[s].pc = "none"

\* the room is registered with one of the three registries
Registered(room) == get_room_status(room).agent_type # "none"

\* the steps of cleanup_room for a room
CleansUp(room) ==
    \E q \in VoiceRequestIds :
        \/ CleanupRoom(q, room)
        \/ CleanupRoomResume(q) /\ voice_requests[q].room = room

\* C40: cleaning up one voice room cancels only that room's pipeline task
\* and clears only that room's session data: the pipeline task, the
\* registry entry and the session data of every other registered room stay
\* as they were, other productivity rooms (which share one engine instance)
\* included.
C40_Step ==
    \A room \in VoiceRooms :
        CleansUp(room)
        => \A other \in VoiceRooms \ {room} :
              Registered(other)
              => /\ voice_tasks'[other] = voice_tasks[other]
                 /\ get_room_status(other)' = get_room_status(other)
                 /\ other \in DOMAIN active_json_agents
                    => /\ json_flow_data' = json_flow_data
                       /\ SubAgents(SharedNow)' = SubAgents(SharedNow)
C40_OnlyOwnRoom == [][C40_Step]_vars

====
